---- MODULE Spec2Model ----
(***************************************************************************)
(* Model of the synthesis orchestrator of PPTAgent (src/pptgen.py):        *)
(* PPTGen.generate_pres, the outline planner with its repair loop and the  *)
(* tenacity wrapper, and per-slide synthesis (PPTCrew / PPTAgent).         *)
(* The generative backend, the embedding provider and the Action Executor  *)
(* are external: their answers are nondeterministic choices.               *)
(***************************************************************************)
EXTENDS Integers, Sequences, FiniteSets, TLC

\* ------------------------------------------------------------------ bounds
MaxSlides == 2        \* longest outline a planner answer may hold
MaxRetry == 2         \* largest configured retry_times
MaxRuns == 2          \* generate_pres invocations against one run directory
MaxElems == 2         \* most elements in a content schema
MaxTurns == 3         \* backend calls made through one Role
MaxLen == 3           \* longest string given to edit_distance

\* ------------------------------------------------------- program constants
Threshold == 700            \* 0.7, in thousandths (pptgen.py:161)
TenacityAttempts == 3       \* stop_after_attempt(3) (utils.py:130)

\* ------------------------------------------------------------ the library
NoLayout == "<no layout>"

\* layout_names, in the order of slide_induction.keys()
layout_names == <<"opening", "bullets">>

\* names a planner answer may carry in an entry's "layout"
RawNames == {"opening", "bullets", "bullet list", "agenda"}

\* cosine similarity of a raw name's embedding to each library embedding,
\* in thousandths; "bullet list" sits exactly on the threshold and "agenda"
\* just below it
LayoutSim(raw) ==
  CASE raw = "opening"     -> <<1000, 400>>
    [] raw = "bullets"     -> <<400, 1000>>
    [] raw = "bullet list" -> <<500, 700>>
    [] raw = "agenda"      -> <<699, 650>>

SeqMax(s) == CHOOSE m \in {s[i] : i \in 1..Len(s)} :
               \A i \in 1..Len(s) : s[i] <= m

\* index of the first maximum
ArgMax(s) == CHOOSE i \in 1..Len(s) :
               /\ s[i] = SeqMax(s)
               /\ \A j \in 1..(i-1) : s[j] < s[i]

Titles == <<"t1", "t2", "t3", "t4">>

MandatoryKeys == {"layout", "subsection_keys", "description"}

\* the value of an outline entry: its "layout" (NoLayout when the key is
\* absent) and the set of keys present
EntryKinds ==
  {[layout |-> r, keys |-> MandatoryKeys] : r \in RawNames \ {"bullets"}}
    \cup {[layout |-> NoLayout, keys |-> {"subsection_keys", "description"}],
          [layout |-> "opening", keys |-> {"layout", "description"}],
          [layout |-> "bullets", keys |-> {"layout", "subsection_keys"}]}

\* the kinds validation lets through
GoodKinds ==
  {e \in EntryKinds : e.keys = MandatoryKeys /\ e.layout # "agenda"}

\* parsed planner answers: ordered dicts title -> entry, as sequences of
\* [title, layout, keys]; the i-th title is Titles[i]; no answer holds more
\* than two defective entries
Outlines ==
  UNION {{[i \in 1..n |-> [title |-> Titles[i], layout |-> f[i].layout,
                           keys |-> f[i].keys]] :
            f \in {g \in [1..n -> EntryKinds] :
                     Cardinality({i \in 1..n : g[i] \notin GoodKinds}) <= 2}}
         : n \in 0..MaxSlides}

\* the planner answers of the document runs: a defective entry, if any,
\* comes last
Answers ==
  {o \in Outlines :
     \A i \in 1..Len(o) :
       [layout |-> o[i].layout, keys |-> o[i].keys] \notin GoodKinds
         => i = Len(o)}

\* ------------------------------------------------- _valid_outline, try body
\* faulty variant: the boundary value itself is rejected
BelowOrEqual(m) == m <= Threshold

BelowThreshold(m) == m < Threshold

\* faulty variant: the model's string is kept
MatchedNameRaw(raw) == raw

MatchedName(raw) == layout_names[ArgMax(LayoutSim(raw))]

\* lines 156-165: the layout loop from entry i on; the entries are rewritten
\* in place, the first exception ends the loop
RECURSIVE LayoutLoop(_, _)
LayoutLoop(o, i) ==
  IF i > Len(o) THEN [status |-> "ok", outline |-> o]
  ELSE IF "layout" \notin o[i].keys
         THEN [status |-> "KeyError", outline |-> o]
       ELSE IF BelowThreshold(SeqMax(LayoutSim(o[i].layout)))
         THEN [status |-> "ValueError", outline |-> o]
       ELSE LayoutLoop([o EXCEPT ![i].layout = MatchedName(o[i].layout)], i + 1)

\* faulty variant: the structure check lets everything through
StructureNeverInvalid(o) == FALSE

\* lines 166-174: the structure check
StructureInvalid(o) ==
  \E i \in 1..Len(o) : ~ (MandatoryKeys \subseteq o[i].keys)

\* lines 155-174: outcome of the try block on outline o
TryValid(o) ==
  LET r == LayoutLoop(o, 1) IN
    IF r.status # "ok" THEN r
    ELSE IF StructureInvalid(r.outline)
      THEN [status |-> "ValueError", outline |-> r.outline]
    ELSE r

\* json.dump / json.load of an outline (lines 134, 146-151): the file holds
\* the key/value pairs in insertion order
JsonDump(o) == [i \in 1..Len(o) |->
                 <<o[i].title, [layout |-> o[i].layout, keys |-> o[i].keys]>>]
JsonLoad(f) == [i \in 1..Len(f) |->
                 [title |-> f[i][1], layout |-> f[i][2].layout,
                  keys |-> f[i][2].keys]]

\* faulty variant: only the first title is listed
SimpleOutlineFirst(o) ==
  [i \in 1..(IF Len(o) > 0 THEN 1 ELSE 0) |-> <<i, o[i].title>>]

\* line 92-97: "Slide i: title" for every key of the outline
SimpleOutline(o) == [i \in 1..Len(o) |-> <<i, o[i].title>>]

\* ------------------------------------------------- templates and slides
Absent == <<"absent">>
Popped == [list |-> FALSE, items |-> <<"<popped>">>]

\* example data of a schema element: a list, or a scalar (list = FALSE)
Scalar(x) == [list |-> FALSE, items |-> <<x>>]
List(xs) == [list |-> TRUE, items |-> xs]

Element(t, d) ==
  [type |-> t, data |-> d, suggestedCharacters |-> Absent,
   default_quantity |-> 0]

\* slide_induction: layout name -> template
InitLibrary ==
  [l \in {"opening", "bullets"} |->
    IF l = "opening"
      THEN [template_id |-> 1,
            content_schema |->
              [e \in {"title", "logo"} |->
                IF e = "title" THEN Element("text", Scalar("Welcome"))
                ELSE Element("image", Scalar("logo.png"))]]
      ELSE [template_id |-> 2,
            content_schema |->
              [e \in {"title", "items"} |->
                IF e = "title" THEN Element("text", List(<<"Agenda">>))
                ELSE Element("text", List(<<"one", "three">>))]]]

\* presentation.slides: template_id - 1 -> the edits applied to the slide
InitPresentation == [t \in 1..2 |-> {}]

SetMin(S) == CHOOSE m \in S : \A x \in S : m <= x
SetMax(S) == CHOOSE m \in S : \A x \in S : x <= m

\* faulty variant: the cardinality is left at its default
PrepareElementDefaultOnly(el) ==
  LET d == IF el.type = "text" /\ ~ el.data.list
             THEN List(el.data.items) ELSE el.data
  IN [schema |-> [type |-> el.type, data |-> Popped,
                  suggestedCharacters |-> el.suggestedCharacters,
                  default_quantity |-> 1],
      old |-> d]

\* lines 334-349 for one element
PrepareElement(el) ==
  LET d == IF el.type = "text" /\ ~ el.data.list
             THEN List(el.data.items) ELSE el.data
      counts == {Len(d.items[i]) : i \in 1..Len(d.items)}
      sc == IF el.type # "text" THEN el.suggestedCharacters
            ELSE IF Len(d.items) > 1
              THEN <<"range", SetMin(counts), SetMax(counts)>>
            ELSE <<"<", Len(d.items[1])>>
  IN [schema |-> [type |-> el.type, data |-> Popped,
                  suggestedCharacters |-> sc,
                  default_quantity |->
                    IF d.list THEN Len(d.items) ELSE 1],
      old |-> d]

\* _prepare_schema (lines 331-350): the schema as rewritten in place, and
\* the old data it returns
PrepareSchema(cs) ==
  [schema |-> [e \in DOMAIN cs |-> PrepareElement(cs[e]).schema],
   old_data |-> [e \in DOMAIN cs |-> PrepareElement(cs[e]).old]]

\* a reference to a template or slide object: shared = TRUE when the
\* reference is the library's own object, FALSE for an independent copy
DeepCopyTemplate(lib, layout) ==
  [shared |-> FALSE, layout |-> layout,
   template_id |-> lib[layout].template_id,
   content_schema |-> lib[layout].content_schema]

\* faulty variant: the exemplar slide itself is edited
SameSlide(pres, tid) ==
  [bound |-> TRUE, shared |-> TRUE, tid |-> tid, content |-> pres[tid]]

DeepCopySlide(pres, tid) ==
  [bound |-> TRUE, shared |-> FALSE, tid |-> tid, content |-> pres[tid]]

UnboundSlide == [bound |-> FALSE, shared |-> FALSE, tid |-> 0, content |-> {}]
NoTemplate ==
  [shared |-> FALSE, layout |-> NoLayout, template_id |-> 0,
   content_schema |-> <<>>]
NoActions == [slide |-> 0, version |-> 0]

\* CodeExecutor.execute_actions: the edits stay on the slide it was given,
\* whether or not it reports feedback
Executed(s, actions, ok) ==
  [s EXCEPT !.content = @ \cup {[actions |-> actions, ok |-> ok]}]

\* faulty variant: the refinement edits the slide itself
SameObject(s) == [copy |-> FALSE, slide |-> s]

\* line 303: deepcopy(slide), an object of its own
DeepCopy(s) == [copy |-> TRUE, slide |-> s]

\* ------------------------------------ _generate_commands (lines 352-385)
\* Python dicts keep insertion order: a dict is a sequence of <<key, value>>
DictHas(d, k) == \E i \in 1..Len(d) : d[i][1] = k
DictGet(d, k) == d[CHOOSE i \in 1..Len(d) : d[i][1] = k][2]

\* the elements a content schema is made of, before _prepare_schema
SchemaElement(name) ==
  CASE name = "title" -> Element("text", Scalar("Welcome"))
    [] name = "items" -> Element("text", List(<<"a", "b">>))
    [] name = "logo"  -> Element("image", Scalar("/tmp/logo.png"))
    [] name = "photo" -> Element("image", List(<<"/tmp/x.png", "/tmp/y.png">>))

ElementNames == {"title", "items", "logo", "photo"}

\* sequences of n distinct members of S
RECURSIVE Arrangements(_, _)
Arrangements(S, n) ==
  IF n = 0 THEN {<<>>}
  ELSE UNION {{Append(a, x) : x \in S \ {a[i] : i \in 1..Len(a)}} :
                a \in Arrangements(S, n - 1)}

\* content schemas: up to MaxElems distinct elements, in any order
Schemas ==
  UNION {{[i \in 1..n |-> <<a[i], SchemaElement(a[i])>>] :
            a \in Arrangements(ElementNames, n)} : n \in 1..MaxElems}

\* what the editor may give for one element: el_info with or without "data",
\* the data a list or a scalar
NoData == [has_data |-> FALSE, data |-> List(<<>>)]
Data(d) == [has_data |-> TRUE, data |-> d]
ElementInfos ==
  {NoData,
   Data(List(<<>>)),
   Data(List(<<"a", "b", "c">>)),
   Data(List(<<"a", "", "c">>)),
   Data(Scalar("s")),
   Data(List(<<"/tmp/x.png", "/missing.png">>)),
   Data(List(<<"/missing.png", "/tmp/y.png", "/tmp/x.png">>)),
   Data(Scalar("/tmp/x.png"))}

\* editor payloads: at most two entries, for elements of the schema or not
Payloads ==
  UNION {{[i \in 1..n |-> <<a[i], f[i]>>] :
            a \in Arrangements(ElementNames \cup {"footer"}, n),
            f \in [1..n -> ElementInfos]} : n \in 0..2}

\* _prepare_schema (lines 331-350) with the iteration order kept: old_data
\* has the schema's keys in the schema's order
PrepareSchemaItems(cs) ==
  [schema |-> [i \in 1..Len(cs) |-> <<cs[i][1], PrepareElement(cs[i][2]).schema>>],
   old_data |-> [i \in 1..Len(cs) |-> <<cs[i][1], PrepareElement(cs[i][2]).old>>]]

NoneVal == "<None>"
ExistingFiles == {"/tmp/x.png", "/tmp/y.png", "/tmp/logo.png"}

\* faulty variant: every candidate is taken to exist
PExistsAlways(p) == TRUE

\* pexists (os.path.exists): TypeError for None, line 368
PExists(p) == p \in ExistingFiles
PExistsRaises(p) == p = NoneVal

\* lines 355-356
AssertData(eo) == \A i \in 1..Len(eo) : eo[i][2].has_data

\* lines 362-364: editor_output.get(el_name, {}).get("data", None), made a
\* list when it is not one
NewContent(eo, name) ==
  IF DictHas(eo, name) /\ DictGet(eo, name).has_data
    THEN DictGet(eo, name).data.items
    ELSE <<NoneVal>>

\* lines 366-369
ImageRaises(nc) == \E i \in 1..Len(nc) : PExistsRaises(nc[i])
ImageChecked(nc) ==
  [i \in 1..Len(nc) |-> IF PExists(nc[i]) THEN nc[i] ELSE NoneVal]

\* line 370: [i for i in new_content if i]
Truthy(x) == x # NoneVal /\ x # ""
Filtered(nc) == SelectSeq(nc, Truthy)

\* faulty variant: the difference is taken the other way round
QuantityChangeSwapped(new, old) == Len(old) - Len(new)

\* line 372
QuantityChange(new, old) == Len(new) - Len(old)

\* faulty variant: the loop goes through the payload
LoopOverPayload(eo, old) ==
  LET ks == SelectSeq(eo, LAMBDA p : DictHas(old, p[1]))
  IN [i \in 1..Len(ks) |-> <<ks[i][1], DictGet(old, ks[i][1])>>]

\* line 358: for el_name, old_content in old_data.items()
LoopOverOldData(eo, old) == old

\* lines 358-383 from item i on: the commands, or the exception that ends
\* the loop
RECURSIVE CommandLoop(_, _, _, _)
CommandLoop(items, i, eo, cs) ==
  IF i > Len(items) THEN [status |-> "returned", commands |-> <<>>]
  ELSE
    LET el_name == items[i][1]
        old_content == items[i][2].items
        type == DictGet(cs, el_name).type
        nc == NewContent(eo, el_name)
    IN IF type = "image" /\ ImageRaises(nc)
         THEN [status |-> "TypeError", commands |-> <<>>]
       ELSE
         LET new_content ==
               Filtered(IF type = "image" THEN ImageChecked(nc) ELSE nc)
             rest == CommandLoop(items, i + 1, eo, cs)
         IN IF rest.status # "returned" THEN rest
            ELSE [status |-> "returned",
                  commands |->
                    <<[el_name |-> el_name, type |-> type,
                       quantity_change |->
                         QuantityChange(new_content, old_content),
                       old_content |-> old_content,
                       new_content |-> new_content]>> \o rest.commands]

\* _generate_commands
GenerateCommands(eo, cs, old) ==
  IF ~ AssertData(eo)
    THEN [status |-> "AssertionError", commands |-> <<>>]
    ELSE CommandLoop(LoopOverOldData(eo, old), 1, eo, cs)

\* line 369 writes into the payload's own list: the payload as
\* _generate_commands leaves it
RaiseAt(items, eo, cs) ==
  LET bad == {i \in 1..Len(items) :
                /\ DictGet(cs, items[i][1]).type = "image"
                /\ ImageRaises(NewContent(eo, items[i][1]))}
  IN IF bad = {} THEN Len(items) + 1 ELSE SetMin(bad)

PayloadAfter(eo, cs, old) ==
  LET items == LoopOverOldData(eo, old)
      visited == {items[i][1] : i \in 1..(RaiseAt(items, eo, cs) - 1)}
  IN IF ~ AssertData(eo) THEN eo
     ELSE [i \in 1..Len(eo) |->
            IF /\ eo[i][1] \in visited
               /\ DictGet(cs, eo[i][1]).type = "image"
               /\ eo[i][2].data.list
              THEN <<eo[i][1],
                     Data(List(ImageChecked(eo[i][2].data.items)))>>
              ELSE eo[i]]

NoCommands == [status |-> "none", commands |-> <<>>]

\* ------------------------------------------------------- Role (llms.py)
\* the Role's configuration (roles/<name>.yaml): jinja_args, system_prompt
prompt_args == {"schema", "text"}
system_message == <<"system_prompt">>

\* texts are sequences of words; ENCODING.encode counts them
Tokens(text) == Len(text)

\* what template.render gives for arguments whose content is c
RenderTemplate(c) == <<"template", c>>
PromptContents == {"p1", "p2"}

\* retry_template.render (lines 229-237, 280)
RetryPrompt(feedback, traceback) == <<"retry_template", feedback, traceback>>

\* LLM.format_message and LLM.__call__ line 119: the exchange's transcript
Message(prompt, resp) ==
  <<[role |-> "user", content |-> prompt],
    [role |-> "assistant", content |-> resp]>>

\* faulty variant: a superset of the declared names is let through
ArgsMatchLoosely(given, required) == required \subseteq given

\* line 309
ArgsMatch(given, required) == given = required

\* faulty variant: every Turn gets the same id
TurnIdZero(h) == 0

\* lines 290, 324: id = len(self.history)
TurnId(h) == Len(h)

\* faulty variant: the slice is taken from the front
FirstN(h, n) ==
  IF n >= Len(h) THEN h ELSE [i \in 1..n |-> h[i]]

\* self.history[-n:] for n > 0
LastN(h, n) ==
  IF n >= Len(h) THEN h ELSE [i \in 1..n |-> h[Len(h) - n + i]]

\* cosine similarity of a prompt's embedding and a Turn's, in thousandths
PromptSim(prompt, turn) == IF turn.prompt = prompt THEN 1000 ELSE 200

\* list.sort(key): stable, ascending
Without(q, p) == [i \in 1..(Len(q) - 1) |-> IF i < p THEN q[i] ELSE q[i + 1]]
RECURSIVE SortedByKeys(_, _)
SortedByKeys(h, keys) ==
  IF Len(h) <= 1 THEN h
  ELSE LET m == SetMin({keys[i] : i \in 1..Len(h)})
           p == SetMin({i \in 1..Len(h) : keys[i] = m})
       IN <<h[p]>> \o SortedByKeys(Without(h, p), Without(keys, p))

\* lines 256-260: the loop goes through the list it appends to; `turn not in
\* history` compares by identity
RECURSIVE SimilarLoop(_, _, _)
SimilarLoop(hist, i, cap) ==
  IF i > Len(hist) \/ Len(hist) > cap THEN hist
  ELSE IF ~ \E j \in 1..Len(hist) : hist[j].uid = hist[i].uid
    THEN SimilarLoop(Append(hist, hist[i]), i + 1, cap)
  ELSE SimilarLoop(hist, i + 1, cap)

\* Role.get_history (lines 251-262); cosine_similarity raises TypeError
\* for a Turn whose embedding is None
GetHistory(h, similar, recent, prompt) ==
  LET got == IF recent > 0 THEN LastN(h, recent) ELSE <<>> IN
    IF similar > 0 /\ \E i \in 1..Len(got) : ~ got[i].embedded
      THEN [status |-> "TypeError", turns |-> <<>>]
    ELSE
      LET ranked == IF similar > 0
                      THEN SimilarLoop(
                             SortedByKeys(got,
                               [i \in 1..Len(got) |-> PromptSim(prompt, got[i])]),
                             1, similar + recent)
                      ELSE got
      IN [status |-> "ok",
          turns |-> SortedByKeys(ranked,
                                 [i \in 1..Len(ranked) |-> ranked[i].id])]

\* lines 312-314, 281-283: the transcripts of the turns, one after another
RECURSIVE Transcripts(_)
Transcripts(turns) ==
  IF turns = <<>> THEN <<>>
  ELSE turns[1].message \o Transcripts(Tail(turns))

RECURSIVE SumOf(_)
SumOf(ns) == IF ns = <<>> THEN 0 ELSE ns[1] + SumOf(Tail(ns))

\* ------------------------------------- edit_distance (utils.py lines 95-96)
\* strings are sequences of characters
Alphabet == {"a", "b"}
Strings == UNION {[1..n -> Alphabet] : n \in 0..MaxLen}

Min3(a, b, c) ==
  IF a <= b /\ a <= c THEN a ELSE IF b <= c THEN b ELSE c

\* Levenshtein.distance with its default unit weights, row by row: row[j + 1]
\* is the distance of the characters read so far to the first j characters
\* of t
RECURSIVE LevRow(_, _, _, _)
LevRow(prev, ch, t, row) ==
  IF Len(row) = Len(prev) THEN row
  ELSE LET j == Len(row) IN
         LevRow(prev, ch, t,
                Append(row, Min3(prev[j + 1] + 1, row[j] + 1,
                                 prev[j] + (IF t[j] = ch THEN 0 ELSE 1))))

RECURSIVE LevRows(_, _, _)
LevRows(s, t, prev) ==
  IF s = <<>> THEN prev[Len(prev)]
  ELSE LevRows(Tail(s), t, LevRow(prev, Head(s), t, <<prev[1] + 1>>))

Levenshtein(s, t) == LevRows(s, t, [j \in 1..(Len(t) + 1) |-> j - 1])

LongerLen(s, t) == IF Len(s) >= Len(t) THEN Len(s) ELSE Len(t)

\* a float between 0 and 1 as the fraction num / den
NoScore == [status |-> "none", num |-> 0, den |-> 1]

\* edit_distance (line 96): 1 - distance / max(len, len); the division
\* raises ZeroDivisionError when both strings are empty
EditDistance(s, t) ==
  IF LongerLen(s, t) = 0
    THEN [status |-> "ZeroDivisionError", num |-> 0, den |-> 1]
    ELSE [status |-> "ok",
          num |-> LongerLen(s, t) - Levenshtein(s, t),
          den |-> LongerLen(s, t)]

\* ------------------------------------------------------------------ state
VARIABLES
  retry_times, force_pages, error_exit, num_slides,  \* PPTGen.__init__ / call
  staffs,              \* the Roles hired: "planner" and the class's roles
  variant,             \* the concrete generator: "PPTCrew" or "PPTAgent"
  outline_file,        \* RUN_DIR/presentation_outline.json
  final_pptx,          \* RUN_DIR/final.pptx as written by the current call
  history_saved,       \* _save_history has run in the current call
  presentation,        \* self.presentation.slides (the exemplar)
  slide_induction,     \* the template library
  run,                 \* number of the current generate_pres call
  pc,                  \* position inside generate_pres
  attempt,             \* tenacity attempt number of _generate_outline
  retry,               \* _valid_outline's retry parameter
  cand,                \* the planner answer under validation
  outline,             \* self.outline
  slide_idx,           \* enumerate index of the generation loop
  template,            \* _generate_slide's template
  old_data,            \* synergize's old_data
  edit_actions,        \* synergize's edit_actions
  error_idx,           \* synergize's loop index
  slide,               \* synergize's slide
  generated_slides,    \* generate_pres's generated_slides
  succ_flag,
  \* observations of the running _generate_outline call (all attempts)
  planner_calls,       \* initial invocations of the planning Role
  planner_retries,     \* planner.retry invocations
  validations,         \* executions of _valid_outline's try block
  \* observations of the current generate_pres call
  request,             \* the last content request sent to editor / agent
  slide_log,           \* the slides attempted, and whether each succeeded
  last_result,         \* how the last finished slide ended
  exec_calls,          \* execute_actions calls for the current slide
  coder_retries,       \* coder.retry invocations for the current slide
  all_nonnull,         \* every execute_actions call so far gave feedback
  exec_input,          \* the slide object handed to the last executor call
  prev_outline,        \* self.outline of the previous call, if it had one
  response,            \* the last raw response a Role got in this call
  edited_slide,        \* synergize's edited_slide (typographer stage)
  typo_retries,        \* typographer.retry invocations for the current slide
  typography_actions,  \* synergize's typography_actions
  \* command generation on its own (_prepare_schema, _generate_commands)
  content_schema,      \* template["content_schema"], in iteration order
  editor_output,       \* the editor's payload, in iteration order
  cmd_old_data,        \* what _prepare_schema returned, in iteration order
  command_list,        \* what _generate_commands returned, or how it raised
  cmd_pc,              \* position inside synergize's lines 270-279
  \* one Role object (llms.py)
  history,             \* Role.history
  input_tokens,        \* Role.input_tokens
  output_tokens,       \* Role.output_tokens
  next_uid,            \* identity of the next Turn object to be created
  llm_calls,           \* calls of the backend made by this Role
  llm_input,           \* what the backend was last called with
  outcome,             \* the last operation on the Role and how it ended
  history_file,        \* <output_dir>/<name>.jsonl
  \* one call of utils.edit_distance
  text1, text2,        \* its arguments
  score,               \* what it returned, or how it raised
  \* the exchanges of the planner and coder Roles in one generate_pres call
  planner_history,     \* the planner Role's history, a tag for each Turn
  coder_history,       \* the coder Role's history, a tag for each Turn
  replay,              \* the Turns the last Role.retry replayed, and for what
  \* calls of baseline.generate_slides against one directory
  output_file,         \* the argument of the current call
  files,               \* the files of the directory, by name
  base_slides,         \* generate_content's slides, then with their images
  headings,            \* len(outline) of generate_content
  lm_calls,            \* llms.language_model calls of the current call
  base_pc,             \* position inside generate_slides
  call_no,             \* how many calls were made
  succeeded,           \* the output_files a call has run to its end for
  succeeded_before     \* whether the current call's output_file was one

config == <<retry_times, force_pages, error_exit, num_slides, variant,
           staffs>>
shared == <<presentation, slide_induction>>
planning == <<attempt, retry, cand>>
planobs == <<planner_calls, planner_retries, validations>>
slideobs == <<exec_calls, coder_retries, all_nonnull, exec_input>>
slidelog == <<slide_log, last_result>>
working == <<template, old_data, edit_actions, error_idx, slide>>
refine == <<edited_slide, typo_retries, typography_actions>>
cmdvars == <<content_schema, editor_output, cmd_old_data, command_list, cmd_pc>>
rolevars == <<history, input_tokens, output_tokens, next_uid, llm_calls,
              llm_input, outcome, history_file>>
scorevars == <<text1, text2, score>>
ledger == <<planner_history, coder_history, replay>>
basevars == <<output_file, files, base_slides, headings, lm_calls, base_pc,
              call_no, succeeded, succeeded_before>>
aux == <<cmdvars, rolevars, scorevars, ledger, basevars, basevars>>

vars == <<config, shared, planning, planobs, slideobs, working,
          outline_file, final_pptx, history_saved, run, pc, outline,
          slide_idx, generated_slides, succ_flag, request, slidelog,
          prev_outline, response, refine, aux>>

\* _hire_staffs (lines 185-197): the planner and the class's roles (lines
\* 236, 260)
Roles(v) == IF v = "PPTAgent" THEN {"agent"} ELSE {"editor", "coder"}
HireStaffs(roles) == {"planner"} \cup roles

\* no command generation under way
CmdIdle ==
  /\ content_schema = <<>> /\ editor_output = <<>> /\ cmd_old_data = <<>>
  /\ command_list = NoCommands /\ cmd_pc = "idle"

\* a Role as constructed (llms.py:238-241), the backend not yet called
NoCall == [prompt |-> <<>>, system |-> <<>>, history |-> <<>>,
           turns |-> <<>>]
NoOutcome == [op |-> "none", status |-> "none", args |-> {}, recent |-> 0,
              similar |-> 0, k |-> 0]
NoHistoryFile == [exists |-> FALSE, input_tokens |-> 0, output_tokens |-> 0,
                  turns |-> <<>>]
RoleIdle ==
  /\ history = <<>> /\ input_tokens = 0 /\ output_tokens = 0
  /\ next_uid = 0 /\ llm_calls = 0 /\ llm_input = NoCall
  /\ outcome = NoOutcome /\ history_file = NoHistoryFile

NoOutline == [exists |-> FALSE, content |-> <<>>]
NoRequest == [slide |-> 0, titles |-> {}, text |-> ""]

\* a Turn of the ledger: the slide (coder) or the tenacity attempt (planner)
\* it was made for, and 0 for the Role's invocation, j for its j-th retry
TurnTag(unit, n) == [unit |-> unit, n |-> n]
NoReplay == [role |-> "none", unit |-> 0, i |-> 0, turns |-> <<>>]

\* no Role has been invoked
LedgerIdle ==
  planner_history = <<>> /\ coder_history = <<>> /\ replay = NoReplay

\* the names generate_slides reads and writes: output_file + suffix
OutputFiles == {"deck1", "deck2"}
Suffixes == {".json", ".jsonl", ".pptx"}
PathOf(o, suffix) == <<o, suffix>>
NoFile == [exists |-> FALSE, by |-> 0, content |-> <<>>]
\* a file that was in the directory before any call
ForeignFile == [exists |-> TRUE, by |-> 0, content |-> <<>>]

\* generate_slides has not been called
BaselineIdle ==
  /\ output_file = "none" /\ base_slides = <<>> /\ headings = 0
  /\ lm_calls = 0 /\ base_pc = "idle" /\ call_no = 0
  /\ succeeded = {} /\ succeeded_before = FALSE
  /\ files = [p \in OutputFiles \X Suffixes |-> NoFile]

\* edit_distance has not been called
ScoreIdle == text1 = <<>> /\ text2 = <<>> /\ score = NoScore

\* the state generate_pres starts from (lines 89-90, 98)
StartOfCall ==
  /\ pc = "outline"
  /\ attempt = 1 /\ retry = 0 /\ cand = <<>>
  /\ outline = <<>> /\ slide_idx = 0
  /\ template = NoTemplate /\ old_data = <<>> /\ edit_actions = NoActions
  /\ error_idx = 0 /\ slide = UnboundSlide
  /\ generated_slides = <<>> /\ succ_flag = TRUE
  /\ final_pptx = [written |-> FALSE, slides |-> <<>>]
  /\ history_saved = FALSE
  /\ planner_calls = 0 /\ planner_retries = 0 /\ validations = 0
  /\ request = NoRequest /\ slide_log = <<>> /\ last_result = "none"
  /\ exec_calls = 0 /\ coder_retries = 0 /\ all_nonnull = TRUE
  /\ exec_input = UnboundSlide
  /\ response = "none"
  /\ edited_slide = UnboundSlide /\ typo_retries = 0
  /\ typography_actions = NoActions

Init ==
  /\ retry_times \in 0..MaxRetry
  /\ force_pages \in BOOLEAN
  /\ error_exit \in BOOLEAN
  /\ num_slides \in 1..MaxSlides
  /\ variant \in {"PPTCrew", "PPTAgent"}
  /\ staffs = HireStaffs(Roles(variant))
  /\ CmdIdle /\ RoleIdle /\ ScoreIdle /\ LedgerIdle /\ BaselineIdle
  /\ outline_file = NoOutline
  /\ presentation = InitPresentation
  /\ slide_induction = InitLibrary
  /\ run = 1
  /\ prev_outline = NoOutline
  /\ StartOfCall

\* ------------------------------------------------------- outline planning
\* faulty variant: the artifact is never looked for
OutlineCachedNever(f) == FALSE

\* pexists(outline_file), line 133
OutlineCached(f) == f.exists

\* faulty variant: one repair too many
RepairBudgetOff(r, limit) == r <= limit

\* retry < self.retry_times, line 176
RepairBudget(r, limit) == r < limit

\* a Role's raw response, as get_json_from_response sees it
RawResponses == {"json", "unparsable"}

\* faulty variant: whatever the text, something is returned
GetJsonNeverRaises(raw) == FALSE

\* utils.get_json_from_response (lines 116-126), reached from
\* Role.__post_process__ (llms.py:341-342): RuntimeError when the text cannot
\* be read as JSON
GetJsonRaises(raw) == raw = "unparsable"

\* faulty variant: the re-runs are not counted
TenacityRaiseUncounted ==
  /\ attempt' = attempt /\ pc' = "outline"
  /\ retry' = 0 /\ cand' = <<>>

\* @tenacity (utils.py:129-131): an exception leaving _generate_outline
\* re-runs it until the third attempt has failed, then re-raises
TenacityRaise ==
  /\ IF attempt < TenacityAttempts
       THEN attempt' = attempt + 1 /\ pc' = "outline"
       ELSE attempt' = attempt /\ pc' = "failed"
  /\ retry' = 0 /\ cand' = <<>>

\* _generate_outline, lines 132-134 and 152: the artifact exists
LoadOutline ==
  /\ pc = "outline"
  /\ OutlineCached(outline_file)
  /\ outline' = JsonLoad(outline_file.content)
  /\ pc' = "planned"
  /\ UNCHANGED <<config, shared, planning, planobs, slideobs, working,
                 outline_file, final_pptx, history_saved, run, slide_idx,
                 generated_slides, succ_flag, request, slidelog,
                 prev_outline, response, refine, aux>>

\* _generate_outline, lines 135-144: the planning Role is invoked; its
\* answer parses to an outline, or Role.__post_process__ raises
PlannerCallStep(A) ==
  /\ pc = "outline"
  /\ ~ OutlineCached(outline_file)
  /\ planner_calls' = planner_calls + 1
  /\ \E raw \in RawResponses :
       /\ response' = raw
       /\ IF GetJsonRaises(raw)
            THEN TenacityRaise
            ELSE \E ans \in A :
                   /\ cand' = ans /\ retry' = 0 /\ attempt' = attempt
                   /\ pc' = "validating"
  /\ UNCHANGED <<config, shared, slideobs, working, planner_retries,
                 validations, outline_file, final_pptx, history_saved,
                 run, outline, slide_idx, generated_slides, succ_flag,
                 request, slidelog, prev_outline, refine>>

\* the same, without an account of the Roles' histories
PlannerCallOn(A) ==
  PlannerCallStep(A) /\ UNCHANGED aux

\* one execution of _valid_outline (lines 154-183) and, when it returns to
\* _generate_outline, of lines 145-152
ValidOutlineStep(A) ==
  /\ pc = "validating"
  /\ validations' = validations + 1
  /\ LET r == TryValid(cand) IN
       \/ /\ r.status = "ok"
          /\ outline' = r.outline
          /\ outline_file' = [exists |-> TRUE, content |-> JsonDump(r.outline)]
          /\ pc' = "planned"
          /\ UNCHANGED <<planning, planner_retries, response>>
       \/ /\ r.status = "ValueError"
          /\ RepairBudget(retry, retry_times)
          /\ planner_retries' = planner_retries + 1
          /\ \E raw \in RawResponses :
               /\ response' = raw
               /\ IF GetJsonRaises(raw)
                    THEN TenacityRaise
                    ELSE \E ans \in A :
                           /\ cand' = ans /\ retry' = retry + 1
                           /\ attempt' = attempt
                           /\ pc' = "validating"
          /\ UNCHANGED <<outline, outline_file>>
       \/ /\ r.status = "ValueError"
          /\ ~ RepairBudget(retry, retry_times)
          /\ TenacityRaise
          /\ UNCHANGED <<outline, outline_file, planner_retries, response>>
       \/ /\ r.status = "KeyError"
          /\ TenacityRaise
          /\ UNCHANGED <<outline, outline_file, planner_retries, response>>
  /\ UNCHANGED <<config, shared, slideobs, working, planner_calls,
                 final_pptx, history_saved, run, slide_idx,
                 generated_slides, succ_flag, request, slidelog,
                 prev_outline, refine>>

\* the same, without an account of the Roles' histories
ValidOutlineOn(A) ==
  ValidOutlineStep(A) /\ UNCHANGED aux

\* planning in a document run
PlannerCall == PlannerCallOn(Answers)
ValidOutline == ValidOutlineOn(Answers)

\* planning on its own, over every answer
PlannerCallAny == PlannerCallOn(Outlines)
ValidOutlineAny == ValidOutlineOn(Outlines)

\* generate_pres, lines 91-98: _generate_outline has returned; its frame,
\* tenacity's attempt counter and the observations of the call end here
OutlineReady ==
  /\ pc = "planned"
  /\ pc' = "loop"
  /\ attempt' = 1 /\ retry' = 0 /\ cand' = <<>>
  /\ planner_calls' = 0 /\ planner_retries' = 0 /\ validations' = 0
  /\ generated_slides' = <<>>
  /\ response' = "none"
  /\ UNCHANGED <<config, shared, slideobs, working, outline_file,
                 final_pptx, history_saved, run, outline, slide_idx,
                 succ_flag, request, slidelog, prev_outline, refine, aux>>

\* ------------------------------------------------------- slide generation
\* faulty variant: the cap lets one more entry through
CapReachedLate(idx) == force_pages /\ idx = num_slides + 1

\* line 100: the slide cap
CapReached(idx) == force_pages /\ idx = num_slides

\* faulty variants: the policy flag is ignored
AbortsNever(flag) == FALSE
AbortsAlways(flag) == TRUE

\* line 108: the stop-on-error policy
AbortsOnFailure(flag) == flag

\* faulty variant: the last iteration is not recognised
LastAttemptOff(idx, limit) == idx = limit

\* line 292: the last iteration of the coder repair loop
LastAttempt(idx, limit) == idx = limit - 1

\* generate_pres, lines 103-105: _generate_slide returned the slide s
SlideSucceeded(s) ==
  /\ generated_slides' = Append(generated_slides, s)
  /\ slide_log' = Append(slide_log, [idx |-> slide_idx + 1, ok |-> TRUE])
  /\ last_result' = "ok"
  /\ slide_idx' = slide_idx + 1
  /\ pc' = "loop"
  /\ UNCHANGED succ_flag

\* _generate_slide, lines 229-232, then generate_pres, lines 106-110:
\* synergize raised, the slide is None
SlideFailed(kind) ==
  /\ slide_log' = Append(slide_log, [idx |-> slide_idx + 1, ok |-> FALSE])
  /\ last_result' = kind
  /\ IF AbortsOnFailure(error_exit)
       THEN succ_flag' = FALSE /\ pc' = "save" /\ slide_idx' = slide_idx
       ELSE succ_flag' = succ_flag /\ pc' = "loop"
            /\ slide_idx' = slide_idx + 1
  /\ UNCHANGED generated_slides

\* the content request of slide k: simple_outline, and the slide's own text
\* (lines 218-220, 272-278, 246-251)
ContentRequest(o, k) ==
  [slide |-> k,
   titles |-> {SimpleOutline(o)[i][2] : i \in DOMAIN SimpleOutline(o)},
   text |-> o[k].title]

\* generate_pres lines 99-102, _generate_slide lines 209-228 and PPTCrew
\* .synergize lines 270-284: the template is copied and prepared, the editor
\* Role is invoked, the commands are generated (which may raise, see
\* GenerateCommands) and the coder Role is invoked
SlideBeginStep ==
  /\ pc = "loop"
  /\ variant = "PPTCrew"
  /\ slide_idx < Len(outline)
  /\ ~ CapReached(slide_idx)
  /\ LET e == outline[slide_idx + 1]
         t == DeepCopyTemplate(slide_induction, e.layout)
         ps == PrepareSchema(t.content_schema)
     IN
       /\ template' = [t EXCEPT !.content_schema = ps.schema]
       /\ old_data' = ps.old_data
       /\ slide_induction' =
            IF t.shared
              THEN [slide_induction EXCEPT
                      ![e.layout].content_schema = ps.schema]
              ELSE slide_induction
       /\ request' = ContentRequest(outline, slide_idx + 1)
  /\ slide' = UnboundSlide /\ error_idx' = 0
  /\ exec_calls' = 0 /\ coder_retries' = 0 /\ all_nonnull' = TRUE
  /\ exec_input' = UnboundSlide
  /\ edited_slide' = UnboundSlide /\ typo_retries' = 0
  /\ typography_actions' = NoActions
  /\ \E editor_raw \in RawResponses, coder_raw \in RawResponses,
        commands \in {"returned", "raised"} :
       IF GetJsonRaises(editor_raw)
         THEN /\ response' = editor_raw
              /\ edit_actions' = NoActions
              /\ SlideFailed("parse")
       ELSE IF commands = "raised"
         THEN /\ response' = editor_raw
              /\ edit_actions' = NoActions
              /\ SlideFailed("commands")
       ELSE IF GetJsonRaises(coder_raw)
         THEN /\ response' = coder_raw
              /\ edit_actions' = NoActions
              /\ SlideFailed("parse")
       ELSE /\ response' = coder_raw
            /\ edit_actions' = [slide |-> slide_idx + 1, version |-> 0]
            /\ pc' = IF 0 < retry_times THEN "exec" ELSE "after_loop"
            /\ UNCHANGED <<slide_idx, generated_slides, succ_flag, slidelog>>
  /\ UNCHANGED <<config, presentation, planning, planobs, outline_file,
                 final_pptx, history_saved, run, outline, prev_outline>>

\* the same, without an account of the Roles' histories
SlideBegin ==
  SlideBeginStep /\ UNCHANGED aux

\* one iteration of the coder repair loop, lines 285-294
ExecuteActionsStep ==
  /\ pc = "exec"
  /\ \E ok \in BOOLEAN :
       LET s0 == DeepCopySlide(presentation, template.template_id)
           s1 == Executed(s0, edit_actions, ok)
       IN
         /\ exec_input' = s0
         /\ slide' = s1
         /\ presentation' =
              IF s0.shared
                THEN [presentation EXCEPT ![s0.tid] = s1.content]
                ELSE presentation
         /\ exec_calls' = exec_calls + 1
         /\ all_nonnull' = (all_nonnull /\ ~ ok)
         /\ \/ /\ ok
               /\ pc' = "after_loop"
               /\ UNCHANGED <<edit_actions, error_idx, coder_retries,
                              slide_idx, generated_slides, succ_flag,
                              slidelog, response>>
            \/ /\ ~ ok
               /\ LastAttempt(error_idx, retry_times)
               /\ SlideFailed("exhausted")
               /\ UNCHANGED <<edit_actions, error_idx, coder_retries,
                              response>>
            \/ /\ ~ ok
               /\ ~ LastAttempt(error_idx, retry_times)
               /\ coder_retries' = coder_retries + 1
               /\ \E raw \in RawResponses :
                    /\ response' = raw
                    /\ IF GetJsonRaises(raw)
                         THEN /\ SlideFailed("parse")
                              /\ UNCHANGED <<edit_actions, error_idx>>
                         ELSE /\ edit_actions' =
                                   [edit_actions EXCEPT !.version = @ + 1]
                              /\ error_idx' = error_idx + 1
                              /\ pc' = IF error_idx + 1 < retry_times
                                         THEN "exec" ELSE "after_loop"
                              /\ UNCHANGED <<slide_idx, generated_slides,
                                             succ_flag, slidelog>>
  /\ UNCHANGED <<config, slide_induction, planning, planobs, template,
                 old_data, outline_file, final_pptx, history_saved, run,
                 outline, request, prev_outline, refine>>

\* the same, without an account of the Roles' histories
ExecuteActions ==
  ExecuteActionsStep /\ UNCHANGED aux

\* lines 296 and 315: without a typographer (line 260 hires none) the slide
\* bound by the loop is returned; a slide the loop never bound (retry_times
\* = 0) raises UnboundLocalError at line 315, or at line 299 with one
ReturnSlide ==
  /\ pc = "after_loop"
  /\ "typographer" \notin staffs \/ ~ slide.bound
  /\ IF slide.bound
       THEN SlideSucceeded(slide)
       ELSE SlideFailed("unbound")
  /\ UNCHANGED <<config, shared, planning, planobs, slideobs, working,
                 outline_file, final_pptx, history_saved, run, outline,
                 request, prev_outline, response, refine, aux>>

\* lines 296-301: the typographer Role is invoked on a rendering of the
\* slide; _prepare_slide_image may raise and the answer may fail to parse
TypographerCall ==
  /\ pc = "after_loop"
  /\ "typographer" \in staffs
  /\ slide.bound
  /\ \E image \in {"rendered", "raised"}, raw \in RawResponses :
       IF image = "raised"
         THEN /\ SlideFailed("image")
              /\ UNCHANGED <<response, typography_actions>>
       ELSE IF GetJsonRaises(raw)
         THEN /\ response' = raw
              /\ SlideFailed("parse")
              /\ UNCHANGED typography_actions
       ELSE /\ response' = raw
            /\ typography_actions' =
                 [slide |-> slide_idx + 1, version |-> 0,
                  role |-> "typographer"]
            /\ pc' = "typo"
            /\ UNCHANGED <<slide_idx, generated_slides, succ_flag, slidelog>>
  /\ error_idx' = 0
  /\ UNCHANGED <<config, shared, planning, planobs, slideobs, template,
                 old_data, edit_actions, slide, outline_file, final_pptx,
                 history_saved, run, outline, request, prev_outline,
                 edited_slide, typo_retries, aux>>

\* one iteration of the typographer loop, lines 302-313: the answer of
\* typographer.retry is bound to edit_actions, typography_actions stay
TypographerExecute ==
  /\ pc = "typo"
  /\ \E ok \in BOOLEAN :
       LET e0 == DeepCopy(slide)
           e1 == Executed(e0.slide, typography_actions, ok)
           s1 == IF e0.copy THEN slide ELSE e1
       IN
         /\ edited_slide' = e1
         /\ slide' = s1
         /\ \/ /\ ok
               /\ SlideSucceeded(e1)
               /\ UNCHANGED <<edit_actions, error_idx, typo_retries,
                              response>>
            \/ /\ ~ ok
               /\ LastAttempt(error_idx, retry_times)
               /\ SlideSucceeded(s1)
               /\ UNCHANGED <<edit_actions, error_idx, typo_retries,
                              response>>
            \/ /\ ~ ok
               /\ ~ LastAttempt(error_idx, retry_times)
               /\ typo_retries' = typo_retries + 1
               /\ \E raw \in RawResponses :
                    /\ response' = raw
                    /\ IF GetJsonRaises(raw)
                         THEN /\ SlideFailed("parse")
                              /\ UNCHANGED <<edit_actions, error_idx>>
                         ELSE /\ edit_actions' =
                                   [slide |-> slide_idx + 1,
                                    version |-> typo_retries + 1,
                                    role |-> "typographer"]
                              /\ error_idx' = error_idx + 1
                              /\ pc' = "typo"
                              /\ UNCHANGED <<slide_idx, generated_slides,
                                             succ_flag, slidelog>>
  /\ UNCHANGED <<config, shared, planning, planobs, slideobs, template,
                 old_data, outline_file, final_pptx, history_saved, run,
                 outline, request, prev_outline, typography_actions, aux>>

\* generate_pres lines 99-102, _generate_slide and PPTAgent.synergize
\* (lines 245-256): the executor's feedback is not looked at
AgentSlide ==
  /\ pc = "loop"
  /\ variant = "PPTAgent"
  /\ slide_idx < Len(outline)
  /\ ~ CapReached(slide_idx)
  /\ LET e == outline[slide_idx + 1]
         t == DeepCopyTemplate(slide_induction, e.layout)
         s0 == DeepCopySlide(presentation, t.template_id)
         acts == [slide |-> slide_idx + 1, version |-> 0]
     IN
       /\ template' = t
       /\ request' = ContentRequest(outline, slide_idx + 1)
       /\ \E raw \in RawResponses :
            /\ response' = raw
            /\ IF ~ GetJsonRaises(raw)
                 THEN /\ \E ok \in BOOLEAN :
                           LET s1 == Executed(s0, acts, ok) IN
                             /\ slide' = s1
                             /\ presentation' =
                                  IF s0.shared
                                    THEN [presentation EXCEPT
                                            ![s0.tid] = s1.content]
                                    ELSE presentation
                             /\ all_nonnull' = ~ ok
                             /\ SlideSucceeded(s1)
                      /\ edit_actions' = acts
                      /\ exec_input' = s0
                      /\ exec_calls' = 1
                 ELSE /\ slide' = s0
                      /\ edit_actions' = NoActions
                      /\ exec_input' = UnboundSlide
                      /\ exec_calls' = 0 /\ all_nonnull' = TRUE
                      /\ SlideFailed("parse")
                      /\ UNCHANGED presentation
  /\ UNCHANGED <<config, slide_induction, planning, planobs, old_data,
                 error_idx, coder_retries, outline_file, final_pptx,
                 history_saved, run, outline, prev_outline, refine, aux>>

\* generate_pres lines 111-114: the loop has ended
SaveHistoryStep ==
  /\ \/ pc = "save"
     \/ pc = "loop" /\ (slide_idx >= Len(outline) \/ CapReached(slide_idx))
  /\ history_saved' = TRUE
  /\ final_pptx' = IF succ_flag
                     THEN [written |-> TRUE, slides |-> generated_slides]
                     ELSE final_pptx
  /\ pc' = "done"
  /\ UNCHANGED <<config, shared, planning, planobs, slideobs, working,
                 outline_file, run, outline, slide_idx, generated_slides,
                 succ_flag, request, slidelog, prev_outline, response,
                 refine>>

\* the same, without an account of the Roles' histories
SaveHistory ==
  SaveHistoryStep /\ UNCHANGED aux

\* generate_pres is called again with the same run directory
Rerun ==
  /\ pc \in {"done", "failed"}
  /\ outline_file.exists
  /\ run < MaxRuns
  /\ run' = run + 1
  /\ prev_outline' = IF pc = "done"
                       THEN [exists |-> TRUE, content |-> outline]
                       ELSE NoOutline
  /\ pc' = "outline"
  /\ attempt' = 1 /\ retry' = 0 /\ cand' = <<>>
  /\ outline' = <<>> /\ slide_idx' = 0
  /\ template' = NoTemplate /\ old_data' = <<>> /\ edit_actions' = NoActions
  /\ error_idx' = 0 /\ slide' = UnboundSlide
  /\ generated_slides' = <<>> /\ succ_flag' = TRUE
  /\ final_pptx' = [written |-> FALSE, slides |-> <<>>]
  /\ history_saved' = FALSE
  /\ planner_calls' = 0 /\ planner_retries' = 0 /\ validations' = 0
  /\ request' = NoRequest /\ slide_log' = <<>> /\ last_result' = "none"
  /\ exec_calls' = 0 /\ coder_retries' = 0 /\ all_nonnull' = TRUE
  /\ exec_input' = UnboundSlide
  /\ response' = "none"
  /\ edited_slide' = UnboundSlide /\ typo_retries' = 0
  /\ typography_actions' = NoActions
  /\ UNCHANGED <<config, shared, outline_file, aux>>

Next ==
  \/ LoadOutline
  \/ PlannerCall
  \/ ValidOutline
  \/ OutlineReady
  \/ SlideBegin
  \/ ExecuteActions
  \/ ReturnSlide
  \/ AgentSlide
  \/ SaveHistory
  \/ Rerun

Spec == Init /\ [][Next]_vars

\* outline planning alone, from the constructor's defaults (lines 40-42)
InitPlan ==
  /\ retry_times \in 0..MaxRetry
  /\ force_pages = FALSE
  /\ error_exit = TRUE
  /\ num_slides = MaxSlides
  /\ variant = "PPTCrew"
  /\ staffs = HireStaffs(Roles(variant))
  /\ CmdIdle /\ RoleIdle /\ ScoreIdle /\ LedgerIdle /\ BaselineIdle
  /\ outline_file = NoOutline
  /\ presentation = InitPresentation
  /\ slide_induction = InitLibrary
  /\ run = 1
  /\ prev_outline = NoOutline
  /\ StartOfCall

NextPlan ==
  \/ PlannerCallAny
  \/ ValidOutlineAny
  \/ OutlineReady

SpecPlan == InitPlan /\ [][NextPlan]_vars

\* ---------------------------------------------- command generation alone
\* the orchestrator as constructed by default, standing by
Standby ==
  /\ retry_times = 3 /\ force_pages = FALSE /\ error_exit = TRUE
  /\ num_slides = MaxSlides
  /\ variant = "PPTCrew"
  /\ staffs = HireStaffs(Roles(variant))
  /\ outline_file = NoOutline
  /\ presentation = InitPresentation
  /\ slide_induction = InitLibrary
  /\ run = 1
  /\ prev_outline = NoOutline
  /\ StartOfCall

main == <<config, shared, planning, planobs, slideobs, working,
          outline_file, final_pptx, history_saved, run, pc, outline,
          slide_idx, generated_slides, succ_flag, request, slidelog,
          prev_outline, response, refine>>

\* synergize is entered with a copy of some template's content schema
InitCmd ==
  /\ Standby /\ RoleIdle /\ ScoreIdle /\ LedgerIdle /\ BaselineIdle
  /\ content_schema \in Schemas
  /\ editor_output = <<>> /\ cmd_old_data = <<>>
  /\ command_list = NoCommands
  /\ cmd_pc = "prepare"

\* lines 270-271
PrepareSchemaStep ==
  /\ cmd_pc = "prepare"
  /\ content_schema' = PrepareSchemaItems(content_schema).schema
  /\ cmd_old_data' = PrepareSchemaItems(content_schema).old_data
  /\ cmd_pc' = "editor"
  /\ UNCHANGED <<main, scorevars, ledger, basevars, rolevars, editor_output, command_list>>

\* lines 272-278: the editor's answer has parsed to a payload
EditorAnswer ==
  /\ cmd_pc = "editor"
  /\ editor_output' \in Payloads
  /\ cmd_pc' = "commands"
  /\ UNCHANGED <<main, scorevars, ledger, basevars, rolevars, content_schema, cmd_old_data, command_list>>

\* line 279
GenerateCommandsStep ==
  /\ cmd_pc = "commands"
  /\ command_list' =
       GenerateCommands(editor_output, content_schema, cmd_old_data)
  /\ editor_output' =
       PayloadAfter(editor_output, content_schema, cmd_old_data)
  /\ cmd_pc' = "done"
  /\ UNCHANGED <<main, scorevars, ledger, basevars, rolevars, content_schema, cmd_old_data>>

NextCmd ==
  \/ PrepareSchemaStep
  \/ EditorAnswer
  \/ GenerateCommandsStep

SpecCmd == InitCmd /\ [][NextCmd]_vars

\* ------------------------------------------------------- one Role alone
\* the argument names an invocation may come with
ArgSets == {{"schema", "text"}, {"schema"}, {"schema", "text", "images_info"}}

\* LLM.format_message, lines 145-146: no system message was given
DefaultSystem == <<"You are a helpful assistant">>

\* the Turn of lines 289-294 / 323-329 once __post_process__ (lines 336-339)
\* is through with it
NewTurn(h, uid, prompt, resp, similar) ==
  [id |-> TurnId(h), uid |-> uid, prompt |-> prompt, response |-> resp,
   message |-> Message(prompt, resp),
   embedded |-> similar > 0,
   input_tokens |-> Tokens(prompt),
   output_tokens |-> Tokens(resp)]

\* Turn.to_dict (lines 192-193)
ToDict(turn) ==
  [id |-> turn.id, prompt |-> turn.prompt, response |-> turn.response,
   message |-> turn.message, input_tokens |-> turn.input_tokens,
   output_tokens |-> turn.output_tokens]

\* faulty variant: the response is parsed before the Turn is kept
PostProcessParsesFirst(raw, conditioning, turn, o) ==
  IF GetJsonRaises(raw)
    THEN /\ outcome' = [o EXCEPT !.status = "RuntimeError"]
         /\ UNCHANGED <<history, input_tokens, output_tokens, next_uid>>
    ELSE /\ history' = Append(history, turn)
         /\ next_uid' = next_uid + 1
         /\ input_tokens' =
              input_tokens + Tokens(system_message) + turn.input_tokens
                + SumOf([i \in 1..Len(conditioning) |->
                           conditioning[i].input_tokens])
         /\ output_tokens' =
              output_tokens + 3 + turn.output_tokens
                + SumOf([i \in 1..Len(conditioning) |->
                           conditioning[i].output_tokens])
         /\ outcome' = [o EXCEPT !.status = "ok"]

\* Role.__post_process__ (lines 332-343) with record_cost and return_json
\* set: the Turn is appended and counted before the response is parsed
PostProcess(raw, conditioning, turn, o) ==
  /\ history' = Append(history, turn)
  /\ next_uid' = next_uid + 1
  /\ input_tokens' =
       input_tokens + Tokens(system_message) + turn.input_tokens
         + SumOf([i \in 1..Len(conditioning) |-> conditioning[i].input_tokens])
  /\ output_tokens' =
       output_tokens + 3 + turn.output_tokens
         + SumOf([i \in 1..Len(conditioning) |-> conditioning[i].output_tokens])
  /\ outcome' = [o EXCEPT !.status =
                   IF GetJsonRaises(raw) THEN "RuntimeError" ELSE "ok"]

\* the operation ends before the backend is called
RoleRaises(o, status) ==
  /\ outcome' = [o EXCEPT !.status = status]
  /\ UNCHANGED <<history, input_tokens, output_tokens, next_uid, llm_calls,
                 llm_input>>

\* the backend is called with this and raises
BackendCalled(prompt, system, turns) ==
  /\ llm_calls' = llm_calls + 1
  /\ llm_input' = [prompt |-> prompt, system |-> system,
                   history |-> Transcripts(turns),
                   turns |-> [i \in 1..Len(turns) |-> turns[i].uid]]

BackendRaises(o) ==
  /\ outcome' = [o EXCEPT !.status = "BackendError"]
  /\ UNCHANGED <<history, input_tokens, output_tokens, next_uid>>

\* Role.__call__ (lines 300-330)
RoleCall ==
  /\ llm_calls < MaxTurns
  /\ \E args \in ArgSets, recent \in 0..1, similar \in 0..1 :
       LET o == [op |-> "call", status |-> "", args |-> args,
                 recent |-> recent, similar |-> similar, k |-> 0]
       IN IF ~ ArgsMatch(args, prompt_args)
            THEN RoleRaises(o, "AssertionError")
          ELSE \E c \in PromptContents :
            LET prompt == RenderTemplate(c)
                gathered == GetHistory(history, similar, recent, prompt)
            IN IF gathered.status # "ok"
                 THEN RoleRaises(o, gathered.status)
               ELSE /\ BackendCalled(prompt, system_message, gathered.turns)
                    /\ \/ BackendRaises(o)
                       \/ \E raw \in RawResponses :
                            PostProcess(raw, gathered.turns,
                              NewTurn(history, next_uid, prompt, <<raw>>,
                                      similar), o)
  /\ UNCHANGED <<main, scorevars, ledger, basevars, cmdvars, history_file>>

\* Role.retry (lines 278-295)
RoleRetry ==
  /\ llm_calls < MaxTurns
  /\ \E k \in 0..2 :
       LET prompt == RetryPrompt("feedback", "traceback")
           o == [op |-> "retry", status |-> "", args |-> {},
                 recent |-> 0, similar |-> 0, k |-> k]
       IN IF ~ (k > 0)
            THEN RoleRaises(o, "AssertionError")
          ELSE /\ BackendCalled(prompt, DefaultSystem, LastN(history, k))
               /\ \/ BackendRaises(o)
                  \/ \E raw \in RawResponses :
                       PostProcess(raw, LastN(history, k),
                         NewTurn(history, next_uid, prompt, <<raw>>, 0), o)
  /\ UNCHANGED <<main, scorevars, ledger, basevars, cmdvars, history_file>>

\* PPTGen._save_history, lines 118-120, for this Role: Role.save_history
\* (lines 264-276), then the history is emptied
SessionSave ==
  /\ history_file' =
       IF history_file.exists /\ Len(history) = 0
         THEN history_file
         ELSE [exists |-> TRUE, input_tokens |-> input_tokens,
               output_tokens |-> output_tokens,
               turns |-> [i \in 1..Len(history) |-> ToDict(history[i])]]
  /\ history' = <<>>
  /\ outcome' = [NoOutcome EXCEPT !.op = "save", !.status = "ok"]
  /\ UNCHANGED <<main, scorevars, ledger, basevars, cmdvars, input_tokens, output_tokens, next_uid,
                 llm_calls, llm_input>>

InitRole ==
  /\ Standby /\ CmdIdle /\ RoleIdle /\ ScoreIdle /\ LedgerIdle
  /\ BaselineIdle

NextRole ==
  \/ RoleCall
  \/ RoleRetry
  \/ SessionSave

SpecRole == InitRole /\ [][NextRole]_vars

\* ---------------------------------------------------- edit_distance alone
InitScore ==
  /\ Standby /\ CmdIdle /\ RoleIdle /\ LedgerIdle /\ BaselineIdle
  /\ text1 \in Strings /\ text2 \in Strings
  /\ score = NoScore

EditDistanceCall ==
  /\ score = NoScore
  /\ score' = EditDistance(text1, text2)
  /\ UNCHANGED <<main, cmdvars, rolevars, ledger, basevars, text1, text2>>

NextScore == EditDistanceCall

SpecScore == InitScore /\ [][NextScore]_vars

\* ------------------------------------- baseline.generate_slides alone
\* line 119: the outputs are looked for under the name output_file + ".json"
OutputsFound(fs, o) == fs[PathOf(o, ".json")].exists

\* a file as written by the current call
Written(content) == [exists |-> TRUE, by |-> call_no, content |-> content]

\* a directory in which some file named <output_file>.json may lie
InitBaseline ==
  /\ Standby /\ CmdIdle /\ RoleIdle /\ ScoreIdle /\ LedgerIdle
  /\ output_file = "none" /\ base_slides = <<>> /\ headings = 0
  /\ lm_calls = 0 /\ base_pc = "idle" /\ call_no = 0
  /\ succeeded = {} /\ succeeded_before = FALSE
  /\ \E lying \in SUBSET OutputFiles :
       files = [p \in OutputFiles \X Suffixes |->
                  IF p[1] \in lying /\ p[2] = ".json"
                    THEN ForeignFile ELSE NoFile]

\* generate_slides is called (lines 111-121): it returns at once when the
\* file of line 119 exists
GenerateSlidesEnter ==
  /\ base_pc \in {"idle", "returned", "raised", "completed"}
  /\ call_no < MaxRuns
  /\ call_no' = call_no + 1
  /\ \E o \in OutputFiles :
       /\ output_file' = o
       /\ succeeded_before' = (o \in succeeded)
       /\ base_pc' = IF OutputsFound(files, o) THEN "returned" ELSE "outline"
  /\ lm_calls' = 0 /\ base_slides' = <<>> /\ headings' = 0
  /\ UNCHANGED <<main, cmdvars, rolevars, scorevars, ledger, files,
                 succeeded>>

\* generate_content, lines 68-71: the headings are asked for
OutlineCall ==
  /\ base_pc = "outline"
  /\ lm_calls' = lm_calls + 1
  /\ \E n \in 0..MaxSlides :
       /\ headings' = n
       /\ base_pc' = IF n = 0 THEN "raised" ELSE "mapping"
  /\ UNCHANGED <<main, cmdvars, rolevars, scorevars, ledger, output_file,
                 files, base_slides, call_no, succeeded, succeeded_before>>

\* generate_content, lines 72-80: the mapping of headings to sections
MappingCall ==
  /\ base_pc = "mapping"
  /\ lm_calls' = lm_calls + 1
  /\ \E same_length \in BOOLEAN :
       base_pc' = IF same_length THEN "bullets" ELSE "raised"
  /\ UNCHANGED <<main, cmdvars, rolevars, scorevars, ledger, output_file,
                 files, base_slides, headings, call_no, succeeded,
                 succeeded_before>>

\* generate_content, lines 82-107: one heading's bullet points
BulletsCall ==
  /\ base_pc = "bullets"
  /\ lm_calls' = lm_calls + 1
  /\ \E bullets \in 0..1 :
       IF bullets = 0
         THEN base_pc' = "raised" /\ UNCHANGED base_slides
         ELSE /\ base_slides' =
                   Append(base_slides, [title |-> Len(base_slides) + 1,
                                       bullets |-> bullets,
                                       image |-> FALSE])
              /\ base_pc' = IF Len(base_slides) + 1 = headings
                              THEN "match" ELSE "bullets"
  /\ UNCHANGED <<main, cmdvars, rolevars, scorevars, ledger, output_file,
                 files, headings, call_no, succeeded, succeeded_before>>

\* lines 123-158: the images whose similarity is above 0.8 are put on
\* their slides
MatchImages ==
  /\ base_pc = "match"
  /\ \E matched \in SUBSET (1..Len(base_slides)) :
       base_slides' = [i \in 1..Len(base_slides) |->
                         [base_slides[i] EXCEPT !.image = i \in matched]]
  /\ base_pc' = "write"
  /\ UNCHANGED <<main, cmdvars, rolevars, scorevars, ledger, output_file,
                 files, headings, lm_calls, call_no, succeeded,
                 succeeded_before>>

\* lines 159-160: output_file + ".jsonl"
WriteJsonl ==
  /\ base_pc = "write"
  /\ files' = [files EXCEPT ![PathOf(output_file, ".jsonl")] =
                 Written(base_slides)]
  /\ base_pc' = "save"
  /\ UNCHANGED <<main, cmdvars, rolevars, scorevars, ledger, output_file,
                 base_slides, headings, lm_calls, call_no, succeeded,
                 succeeded_before>>

\* line 161: output_file + ".pptx"; the call has run to its end
SavePptx ==
  /\ base_pc = "save"
  /\ files' = [files EXCEPT ![PathOf(output_file, ".pptx")] =
                 Written(base_slides)]
  /\ base_pc' = "completed"
  /\ succeeded' = succeeded \cup {output_file}
  /\ UNCHANGED <<main, cmdvars, rolevars, scorevars, ledger, output_file,
                 base_slides, headings, lm_calls, call_no,
                 succeeded_before>>

NextBaseline ==
  \/ GenerateSlidesEnter
  \/ OutlineCall
  \/ MappingCall
  \/ BulletsCall
  \/ MatchImages
  \/ WriteJsonl
  \/ SavePptx

SpecBaseline == InitBaseline /\ [][NextBaseline]_vars

\* ------------------------- a crew's run with the Roles' histories kept
\* faulty variant: one Turn more than the repairs made so far
RetryDepthDeeper(idx) == idx + 2

\* lines 178 and 294: error_idx as given to Role.retry, retry + 1 by the
\* planner's validation and error_idx + 1 by the coder loop
RetryDepth(idx) == idx + 1

InitReplay ==
  /\ retry_times = MaxRetry + 1
  /\ force_pages = FALSE
  /\ error_exit = FALSE
  /\ num_slides = MaxSlides
  /\ variant = "PPTCrew"
  /\ staffs = HireStaffs(Roles(variant))
  /\ CmdIdle /\ RoleIdle /\ ScoreIdle /\ LedgerIdle /\ BaselineIdle
  /\ outline_file = NoOutline
  /\ presentation = InitPresentation
  /\ slide_induction = InitLibrary
  /\ run = 1
  /\ prev_outline = NoOutline
  /\ StartOfCall

\* line 136 with llms.py:335: the planner's Turn is appended before its
\* response is parsed
PlannerCallTraced ==
  /\ PlannerCallStep(Answers)
  /\ planner_history' = Append(planner_history, TurnTag(attempt, 0))
  /\ UNCHANGED <<coder_history, replay, cmdvars, rolevars, scorevars, basevars>>

\* lines 177-179 with llms.py:278-295
ValidOutlineTraced ==
  /\ ValidOutlineStep(Answers)
  /\ IF planner_retries' > planner_retries
       THEN /\ replay' = [role |-> "planner", unit |-> attempt,
                          i |-> retry + 1,
                          turns |-> LastN(planner_history,
                                          RetryDepth(retry))]
            /\ planner_history' =
                 Append(planner_history, TurnTag(attempt, retry + 1))
       ELSE UNCHANGED <<planner_history, replay>>
  /\ UNCHANGED <<coder_history, cmdvars, rolevars, scorevars, basevars>>

\* line 280 with llms.py:335: the coder is invoked unless the editor's
\* answer did not parse or the commands raised; its Turn is appended also
\* when its own answer does not parse
SlideBeginTraced ==
  /\ SlideBeginStep
  /\ \/ /\ pc' \in {"exec", "after_loop"}
        /\ coder_history' =
             Append(coder_history, TurnTag(slide_idx + 1, 0))
     \/ /\ pc' \notin {"exec", "after_loop"}
        /\ last_result' = "parse"
        /\ coder_history' =
             Append(coder_history, TurnTag(slide_idx + 1, 0))
     \/ /\ pc' \notin {"exec", "after_loop"}
        /\ UNCHANGED coder_history
  /\ UNCHANGED <<planner_history, replay, cmdvars, rolevars, scorevars, basevars>>

\* line 294 with llms.py:278-295
ExecuteActionsTraced ==
  /\ ExecuteActionsStep
  /\ IF coder_retries' > coder_retries
       THEN /\ replay' = [role |-> "coder", unit |-> slide_idx + 1,
                          i |-> error_idx + 1,
                          turns |-> LastN(coder_history,
                                          RetryDepth(error_idx))]
            /\ coder_history' =
                 Append(coder_history, TurnTag(slide_idx + 1, error_idx + 1))
       ELSE UNCHANGED <<coder_history, replay>>
  /\ UNCHANGED <<planner_history, cmdvars, rolevars, scorevars, basevars>>

\* lines 111-120: every Role's history is emptied
SaveHistoryTraced ==
  /\ SaveHistoryStep
  /\ planner_history' = <<>> /\ coder_history' = <<>>
  /\ UNCHANGED <<replay, cmdvars, rolevars, scorevars, basevars>>

NextReplay ==
  \/ PlannerCallTraced
  \/ ValidOutlineTraced
  \/ OutlineReady
  \/ SlideBeginTraced
  \/ ExecuteActionsTraced
  \/ ReturnSlide
  \/ SaveHistoryTraced

SpecReplay == InitReplay /\ [][NextReplay]_vars

\* ------------------------------------- a crew that hires a typographer
\* line 260 with the role it leaves out
RolesWithTypographer == Roles("PPTCrew") \cup {"typographer"}

InitTypo ==
  /\ retry_times \in 0..MaxRetry
  /\ force_pages = FALSE
  /\ error_exit \in BOOLEAN
  /\ num_slides = MaxSlides
  /\ variant = "PPTCrew"
  /\ staffs = HireStaffs(RolesWithTypographer)
  /\ CmdIdle /\ RoleIdle /\ ScoreIdle /\ LedgerIdle /\ BaselineIdle
  /\ outline_file = NoOutline
  /\ presentation = InitPresentation
  /\ slide_induction = InitLibrary
  /\ run = 1
  /\ prev_outline = NoOutline
  /\ StartOfCall

NextTypo ==
  \/ PlannerCall
  \/ ValidOutline
  \/ OutlineReady
  \/ SlideBegin
  \/ ExecuteActions
  \/ ReturnSlide
  \/ TypographerCall
  \/ TypographerExecute
  \/ SaveHistory

SpecTypo == InitTypo /\ [][NextTypo]_vars

\* ------------------- one generate_pres call, every backend call returning
InitLive ==
  /\ retry_times \in 0..MaxRetry
  /\ force_pages \in BOOLEAN
  /\ error_exit \in BOOLEAN
  /\ num_slides = 1
  /\ variant \in {"PPTCrew", "PPTAgent"}
  /\ staffs \in {HireStaffs(Roles(variant))} \cup
                (IF variant = "PPTCrew"
                   THEN {HireStaffs(RolesWithTypographer)} ELSE {})
  /\ CmdIdle /\ RoleIdle /\ ScoreIdle /\ LedgerIdle /\ BaselineIdle
  /\ outline_file = NoOutline
  /\ presentation = InitPresentation
  /\ slide_induction = InitLibrary
  /\ run = 1
  /\ prev_outline = NoOutline
  /\ StartOfCall

NextLive ==
  \/ PlannerCall
  \/ ValidOutline
  \/ OutlineReady
  \/ SlideBegin
  \/ ExecuteActions
  \/ ReturnSlide
  \/ TypographerCall
  \/ TypographerExecute
  \/ AgentSlide
  \/ SaveHistory

\* every step of NextLive but the validation of a planner answer
NextLiveUnvalidated ==
  \/ PlannerCall
  \/ OutlineReady
  \/ SlideBegin
  \/ ExecuteActions
  \/ ReturnSlide
  \/ TypographerCall
  \/ TypographerExecute
  \/ AgentSlide
  \/ SaveHistory

\* _valid_outline is entered: what every ValidOutline step does, and the
\* only kind of step there is from a state with pc = "validating";
\* ValidOutline has a case for every outcome of the try block, so the step
\* is there to take
ValidationRuns == pc = "validating" /\ validations' = validations + 1

\* the interpreter runs the next statement whenever there is one
SpecLive ==
  /\ InitLive /\ [][NextLive]_vars
  /\ WF_vars(NextLiveUnvalidated)
  /\ WF_validations(ValidationRuns)

\* ================================================================ claims
Finished == pc \in {"loop", "save", "done"} /\ last_result # "none"
Crew == variant = "PPTCrew"
LibraryNames == {layout_names[k] : k \in 1..Len(layout_names)}

\* C1 (as stated): when every execute_actions call of a PPTCrew slide gave
\* feedback, the slide is abandoned after exactly retry_times coder.retry
\* invocations.
C1_ExactlyRetryTimesRetries ==
  (Crew /\ Finished /\ all_nonnull /\ last_result = "exhausted")
    => coder_retries = retry_times

\* C1 (amended): when every execute_actions call of a PPTCrew slide gave
\* feedback, the slide fails; it is abandoned by the loop after exactly
\* retry_times executor calls and retry_times - 1 coder.retry invocations,
\* and no failing slide has seen more of either (a coder retry that does not
\* parse ends it earlier; with retry_times = 0 nothing is executed at all).
C1_AbandonedAfterRetryTimesExecutions ==
  (Crew /\ Finished) =>
    /\ (all_nonnull => last_result # "ok")
    /\ (last_result = "exhausted" =>
          /\ all_nonnull
          /\ exec_calls = retry_times
          /\ coder_retries = retry_times - 1)
    /\ (all_nonnull /\ exec_calls > 0 /\ last_result # "parse"
          => last_result = "exhausted")
    /\ exec_calls <= retry_times
    /\ coder_retries <= exec_calls
    /\ (retry_times > 0 => coder_retries <= retry_times - 1)
    /\ (retry_times = 0 => last_result \in {"unbound", "parse", "commands"})

C1_Witness ==
  /\ Crew /\ Finished /\ last_result = "exhausted"
  /\ retry_times = 2 /\ exec_calls = 2 /\ coder_retries = 1

\* C2 (as stated): outline planning for one document performs at most
\* retry_times + 1 validation attempts.
C2_AtMostRetryTimesPlusOne == validations <= retry_times + 1

\* C2 (amended): outline planning performs at most 3 * (retry_times + 1)
\* validation attempts, at most retry_times + 1 in each of at most three
\* tenacity attempts; it fails only when the third attempt has raised.
C2_BoundedValidations ==
  /\ validations <= TenacityAttempts * (retry_times + 1)
  /\ planner_calls <= TenacityAttempts
  /\ attempt \in 1..TenacityAttempts
  /\ retry <= retry_times
  /\ (pc = "failed" => attempt = TenacityAttempts)

C2_Witness ==
  /\ pc = "failed" /\ retry_times = 2
  /\ validations = TenacityAttempts * (retry_times + 1)

\* C3: an outline that validation has accepted holds, in every entry, a
\* name of the library, and it is the library name most similar to the name
\* the planner gave.
C3_AcceptedLayoutsAreLibraryNames ==
  (pc = "planned") =>
    /\ Len(outline) = Len(cand)
    /\ \A i \in 1..Len(outline) :
         /\ outline[i].layout \in LibraryNames
         /\ \E k \in 1..Len(layout_names) :
              /\ layout_names[k] = outline[i].layout
              /\ \A j \in 1..Len(layout_names) :
                   LayoutSim(cand[i].layout)[j] <= LayoutSim(cand[i].layout)[k]

C3_Witness ==
  /\ pc = "planned"
  /\ \E i \in 1..Len(outline) :
       cand[i].layout = "bullet list" /\ outline[i].layout = "bullets"

\* C4 (as stated): the content request of slide k holds the titles of
\* slides 1..k-1 and none of the titles of slides k+1..n.
C4_EarlierTitlesOnly ==
  \A k \in 1..Len(outline) :
    request.slide = k =>
      /\ \A i \in 1..(k - 1) : outline[i].title \in request.titles
      /\ \A i \in (k + 1)..Len(outline) : outline[i].title \notin request.titles

\* C4 (amended): the content request of slide k holds the titles of all n
\* outline entries, those of slides k+1..n included, and slide k's own text.
C4_WholeOutlineInEveryRequest ==
  \A k \in 1..Len(outline) :
    request.slide = k =>
      /\ request.titles = {outline[i].title : i \in 1..Len(outline)}
      /\ request.text = outline[k].title

C4_Witness ==
  /\ Len(outline) = 2
  /\ request.slide = 1
  /\ outline[2].title \in request.titles

\* C5: in a call that finds the outline artifact, the planning Role is not
\* invoked and nothing is validated, the outline used is the one stored, the
\* artifact stays as it was, and the outline is that of the previous call.
C5_ArtifactSkipsPlanning ==
  (run > 1) =>
    /\ planner_calls = 0 /\ planner_retries = 0 /\ validations = 0
    /\ outline_file.exists
    /\ prev_outline.exists
    /\ Len(outline_file.content) = Len(prev_outline.content)
    /\ \A i \in 1..Len(prev_outline.content) :
         /\ outline_file.content[i][1] = prev_outline.content[i].title
         /\ outline_file.content[i][2].layout = prev_outline.content[i].layout
         /\ outline_file.content[i][2].keys = prev_outline.content[i].keys
    /\ (pc # "outline" => outline = prev_outline.content)

C5_Witness ==
  /\ run = 2 /\ pc = "done" /\ Len(outline) = 2 /\ final_pptx.written

\* the slide a generated slide object was made for
IdxOf(s) == CHOOSE k \in 1..MaxSlides : \E e \in s.content : e.actions.slide = k

\* C6: under error_exit only the last attempted slide can have failed, so no
\* slide is generated after a failure, and final.pptx is written only when
\* every attempted slide succeeded.
C6_StopOnError ==
  error_exit =>
    /\ \A i \in 1..(Len(slide_log) - 1) : slide_log[i].ok
    /\ (final_pptx.written => \A i \in 1..Len(slide_log) : slide_log[i].ok)
    /\ (pc = "done" /\ (\E i \in 1..Len(slide_log) : ~ slide_log[i].ok)
          => ~ final_pptx.written)

C6_Witness ==
  /\ error_exit /\ ~ force_pages /\ pc = "done"
  /\ Len(outline) = 2 /\ Len(slide_log) = 1 /\ ~ slide_log[1].ok
  /\ ~ final_pptx.written

\* the entries generation goes through: all of them, or the first num_slides
\* under force_pages
Planned ==
  IF force_pages /\ num_slides < Len(outline) THEN num_slides ELSE Len(outline)

Succeeded == SelectSeq(slide_log, LAMBDA r : r.ok)

C8_ExemplarUntouched ==
  /\ slide_induction = InitLibrary
  /\ presentation = InitPresentation
  /\ ~ template.shared
  /\ (exec_input.bound =>
        /\ ~ exec_input.shared
        /\ exec_input.content = InitPresentation[exec_input.tid])

C8_Witness ==
  /\ Len(slide_log) = 1 /\ ~ slide_log[1].ok
  /\ exec_calls = 2 /\ all_nonnull
  /\ slide.content # {} /\ exec_input.content = {}

\* what a validation of outline o is looking at
BestSim(e) == SeqMax(LayoutSim(e.layout))
MissingMandatory(o) ==
  \E i \in 1..Len(o) : MandatoryKeys \ o[i].keys # {}
AllReach070(o) ==
  \A i \in 1..Len(o) : "layout" \in o[i].keys /\ BestSim(o[i]) >= 700
\* the first entry the layout loop stops at is one below 0.70
StopsBelow070(o) ==
  \E i \in 1..Len(o) :
    /\ "layout" \in o[i].keys /\ BestSim(o[i]) < 700
    /\ \A j \in 1..(i - 1) : "layout" \in o[j].keys /\ BestSim(o[j]) >= 700

\* C9 (as stated): validating an outline with an entry that lacks one of
\* layout, subsection_keys, description, while budget remains, invokes
\* planner.retry; when its answer parses, validation is re-entered with the
\* retry counter incremented.
C9_MissingAttributeRepairs ==
  [][(pc = "validating" /\ MissingMandatory(cand) /\ retry < retry_times)
       => /\ planner_retries' = planner_retries + 1
          /\ (pc' = "validating" => retry' = retry + 1 /\ attempt' = attempt)
    ]_vars

\* C9, the part the code keeps: the same, for outlines in which every entry
\* has its layout key.
C9_MissingOtherAttributeRepairs ==
  [][(/\ pc = "validating" /\ MissingMandatory(cand) /\ retry < retry_times
      /\ \A i \in 1..Len(cand) : "layout" \in cand[i].keys)
       => /\ planner_retries' = planner_retries + 1
          /\ (pc' = "validating" => retry' = retry + 1 /\ attempt' = attempt)
    ]_vars

\* C10: an outline whose entries all reach 0.70, exactly 0.70 included, and
\* are complete is accepted without a repair; an entry whose best similarity
\* is below 0.70 makes the validation fail, and planner.retry is invoked for
\* it while budget remains.
C10_ThresholdBoundary ==
  [][pc = "validating" =>
       /\ (AllReach070(cand) /\ ~ MissingMandatory(cand)
             => /\ pc' = "planned"
                /\ planner_retries' = planner_retries
                /\ retry' = retry)
       /\ (StopsBelow070(cand)
             => /\ pc' # "planned"
                /\ outline_file' = outline_file
                /\ (retry < retry_times
                      => planner_retries' = planner_retries + 1))
    ]_vars

C10_Witness ==
  /\ pc = "planned" /\ planner_retries = 0
  /\ \E i \in 1..Len(cand) : BestSim(cand[i]) = 700

\* ------------------------------------------------- command generation
CmdReturned == cmd_pc = "done" /\ command_list.status = "returned"
NonEmpty(x) == x # ""
Exists(p) == p \in ExistingFiles
\* the payload has data for schema element i
Given(eo, i) ==
  /\ DictHas(eo, content_schema[i][1])
  /\ DictGet(eo, content_schema[i][1]).has_data
GivenData(eo, i) == DictGet(eo, content_schema[i][1]).data.items
TypeOf(i) == content_schema[i][2].type
OldOf(i) == cmd_old_data[i][2].items

\* C11 (as stated): for a text element the payload has data for, the
\* command's new content is the payload's data list, no member dropped, and
\* its quantity change is len(new) - len(old).
C11_NoMemberDropped ==
  CmdReturned =>
    \A i \in 1..Len(content_schema) :
      (TypeOf(i) = "text" /\ Given(editor_output, i)) =>
        /\ command_list.commands[i].new_content = GivenData(editor_output, i)
        /\ command_list.commands[i].quantity_change =
             Len(GivenData(editor_output, i)) - Len(OldOf(i))

\* C11 (amended): for a text element the payload has data for, the command's
\* new content is the payload's data (a scalar taken as a one-member list)
\* without its empty members, in order; its old content is the element's
\* example data and its quantity change is len(new content) - len(old).
C11_EmptyMembersDropped ==
  CmdReturned =>
    \A i \in 1..Len(content_schema) :
      (TypeOf(i) = "text" /\ Given(editor_output, i)) =>
        LET c == command_list.commands[i] IN
          /\ c.el_name = content_schema[i][1] /\ c.type = "text"
          /\ c.new_content = SelectSeq(GivenData(editor_output, i), NonEmpty)
          /\ c.old_content = OldOf(i)
          /\ c.quantity_change = Len(c.new_content) - Len(c.old_content)

C11_Witness ==
  /\ CmdReturned
  /\ \E i \in 1..Len(content_schema) :
       /\ content_schema[i][1] = "items"
       /\ Given(editor_output, i)
       /\ GivenData(editor_output, i) = <<"a", "b", "c">>
       /\ command_list.commands[i].old_content = <<"a", "b">>
       /\ command_list.commands[i].new_content = <<"a", "b", "c">>
       /\ command_list.commands[i].quantity_change = 1

C13_AbsentElementRemoved ==
  (cmd_pc = "done" /\ AssertData(editor_output)) =>
    \A i \in 1..Len(content_schema) :
      ~ DictHas(editor_output, content_schema[i][1]) =>
        /\ command_list.status = "returned"
        /\ command_list.commands[i].new_content = <<>>
        /\ command_list.commands[i].quantity_change = - Len(OldOf(i))

\* C13, the part the code keeps: the same when every image element of the
\* schema has data in the payload.
C13_AbsentTextElementRemoved ==
  (/\ cmd_pc = "done" /\ AssertData(editor_output)
   /\ \A i \in 1..Len(content_schema) :
        TypeOf(i) = "image" => DictHas(editor_output, content_schema[i][1]))
   =>
    \A i \in 1..Len(content_schema) :
      ~ DictHas(editor_output, content_schema[i][1]) =>
        /\ command_list.status = "returned"
        /\ command_list.commands[i].new_content = <<>>
        /\ command_list.commands[i].quantity_change = - Len(OldOf(i))

\* C14: a command list that is returned has one command for each element of
\* the content schema, in the schema's order, and none for anything else.
C14_OneCommandPerSchemaElement ==
  CmdReturned =>
    /\ Len(command_list.commands) = Len(content_schema)
    /\ \A i \in 1..Len(content_schema) :
         /\ command_list.commands[i].el_name = content_schema[i][1]
         /\ command_list.commands[i].type = TypeOf(i)

C14_Witness ==
  /\ CmdReturned
  /\ Len(content_schema) = 2 /\ Len(editor_output) = 2
  /\ editor_output[1][1] = content_schema[2][1]
  /\ editor_output[2][1] = "footer"
  /\ Len(command_list.commands) = 2

\* ------------------------------------------------------- parse failures
\* C15 (as stated): a slide fails on a response that does not parse only
\* after the retry budget is used up (counted as the code counts it: all of
\* the retry_times - 1 retries the repair loop can make).
C15_ParseFailureRetried ==
  (Crew /\ Finished /\ response = "unparsable" /\ last_result = "parse")
    => coder_retries >= retry_times - 1

\* C15 (amended): a response that does not parse is never worked on and
\* never repaired in place: a slide's synthesis has failed in the very step
\* that received it, whatever is left of the budget, and outline planning
\* has left _generate_outline for tenacity to re-run or, after the third
\* attempt, to give up.
C15_ParseFailureEndsTheAttempt ==
  response = "unparsable" =>
    /\ pc \in {"outline", "failed", "loop", "save", "done"}
    /\ (pc \in {"loop", "save", "done"} =>
          /\ last_result = "parse"
          /\ ~ slide_log[Len(slide_log)].ok
          /\ coder_retries <= exec_calls)
    /\ (pc \in {"outline", "failed"} =>
          /\ retry = 0 /\ cand = <<>> /\ planner_calls >= 1
          /\ attempt \in 1..TenacityAttempts
          /\ (pc = "failed" => attempt = TenacityAttempts))

C15_Witness ==
  /\ Crew /\ response = "unparsable" /\ last_result = "parse"
  /\ pc = "loop" /\ retry_times = 2
  /\ exec_calls = 0 /\ coder_retries = 0

\* ------------------------------------------------------------- one Role
Completed(o) == o.status \in {"ok", "RuntimeError"}
IsPrefix(a, b) ==
  /\ Len(a) <= Len(b)
  /\ \A i \in 1..Len(a) : a[i] = b[i]
RoleUntouched ==
  UNCHANGED <<history, input_tokens, output_tokens, next_uid, llm_calls,
              llm_input>>

\* C16: an invocation whose argument names are not exactly the declared
\* ones ends in an assertion error; the backend is not called and the
\* Role's history and token counters stay as they were.
C16_ArgumentMismatchFailsEarly ==
  [][(outcome'.op = "call" /\ outcome'.args # prompt_args) =>
       /\ outcome'.status = "AssertionError"
       /\ RoleUntouched
    ]_vars

C16_Witness ==
  /\ outcome.op = "call" /\ outcome.status = "AssertionError"
  /\ outcome.args = {"schema", "text", "images_info"}
  /\ Len(history) = 2 /\ llm_calls = 2 /\ input_tokens > 0

\* C17: between two session saves a Role's history only grows at its end,
\* by exactly one Turn for every backend exchange of an invocation or a
\* retry that completed and by none otherwise; the Turn ids are strictly
\* increasing in list order and no two Turns are the same object.
C17_HistoryAppendOnly ==
  [][/\ \A i \in 1..Len(history') : \A j \in 1..Len(history') :
          i < j => /\ history'[i].id < history'[j].id
                   /\ history'[i].uid # history'[j].uid
     /\ (outcome'.op \in {"call", "retry"} =>
           /\ IsPrefix(history, history')
           /\ Len(history') =
                Len(history) + (IF Completed(outcome') THEN 1 ELSE 0)
           /\ (outcome'.status = "BackendError" =>
                 llm_calls' = llm_calls + 1))
    ]_vars

C17_Witness ==
  /\ Len(history) = 3
  /\ history[1].prompt = RenderTemplate("p1")
  /\ history[2].prompt = RetryPrompt("feedback", "traceback")
  /\ history[2].response = <<"unparsable">>
  /\ history[3].id = 2

\* the history an invocation that has just completed was made on
Prior == SubSeq(history, 1, Len(history) - 1)
JustCalled ==
  /\ outcome.op = "call" /\ Completed(outcome)
  /\ Len(history) > 0
  /\ \A i \in 1..Len(Prior) : Prior[i].embedded
PositionIn(h, uid) == CHOOSE i \in 1..Len(h) : h[i].uid = uid
\* the sets of K positions of h most similar to the prompt
MostSimilar(h, prompt, K) ==
  {S \in SUBSET (1..Len(h)) :
     /\ Cardinality(S) = (IF K < Len(h) THEN K ELSE Len(h))
     /\ \A i \in S : \A j \in (1..Len(h)) \ S :
          PromptSim(prompt, h[i]) >= PromptSim(prompt, h[j])}
MostRecent(h, N) == {i \in 1..Len(h) : i > Len(h) - N}
\* the turns the backend got are those at the positions P of h, in order
GatheredAre(h, P) ==
  /\ Len(llm_input.turns) = Cardinality(P)
  /\ \A a \in 1..Len(llm_input.turns) :
       /\ \E i \in P : h[i].uid = llm_input.turns[a]
       /\ \A b \in 1..Len(llm_input.turns) :
            a < b => PositionIn(h, llm_input.turns[a])
                       < PositionIn(h, llm_input.turns[b])

\* C18 (as stated): an invocation with recent = N and similar = K is
\* conditioned on the N most recent Turns and the K Turns most similar to
\* the prompt, each once, in id order.
C18_RecentPlusSimilar ==
  JustCalled =>
    \E S \in MostSimilar(Prior, llm_input.prompt, outcome.similar) :
      GatheredAre(Prior, S \cup MostRecent(Prior, outcome.recent))

\* C18, what the code does: the conditioning history is the N most recent
\* Turns alone, in id order.
C18_RecentOnly ==
  JustCalled => GatheredAre(Prior, MostRecent(Prior, outcome.recent))

\* the transcripts of h[lo..hi], one after another
RECURSIVE Replay(_, _, _)
Replay(h, lo, hi) ==
  IF lo > hi THEN <<>> ELSE h[lo].message \o Replay(h, lo + 1, hi)

\* C19: a retry with k > 0 calls the backend with the repair prompt made of
\* feedback and trace as the request and the transcripts of the last k
\* Turns (all of them when there are fewer), in call order, as context, and
\* a completed exchange appends one Turn holding that prompt; a retry with
\* k <= 0 fails, the backend is not called and the Role stays as it was.
C19_RetryReplaysLastK ==
  [][outcome'.op = "retry" =>
       IF outcome'.k > 0
         THEN LET n == Len(history)
                  lo == IF outcome'.k < n THEN n - outcome'.k + 1 ELSE 1
              IN /\ llm_calls' = llm_calls + 1
                 /\ llm_input'.prompt = <<"retry_template", "feedback",
                                          "traceback">>
                 /\ llm_input'.history = Replay(history, lo, n)
                 /\ IF Completed(outcome')
                      THEN /\ Len(history') = n + 1
                           /\ IsPrefix(history, history')
                           /\ history'[n + 1].prompt = llm_input'.prompt
                           /\ history'[n + 1].id = n
                      ELSE history' = history
         ELSE /\ outcome'.status = "AssertionError"
              /\ RoleUntouched
    ]_vars

C19_Witness ==
  /\ outcome.op = "retry" /\ outcome.k = 1 /\ outcome.status = "ok"
  /\ Len(history) = 3
  /\ llm_input.turns = <<history[2].uid>>
  /\ llm_input.history = history[2].message

\* ------------------------------------------------------- the refinement
TypographerEdits(s) ==
  {c \in s.content : c.actions = typography_actions}
\* the typographer loop has just ended on its last failed attempt
Exhausted ==
  /\ pc = "typo"
  /\ pc' # "typo"
  /\ LastAttempt(error_idx, retry_times)
  /\ [actions |-> typography_actions, ok |-> FALSE] \in edited_slide'.content

\* C20: when the last attempt allowed to the typographer has failed, the
\* slide does not fail: the slide returned is the one the coder loop ended
\* on, the copy of the exemplar with the successful edit actions, and
\* holds no edit of the typographer.
C20_ExhaustedRefinementKeepsSlide ==
  [][Exhausted =>
       /\ last_result' = "ok"
       /\ generated_slides' = Append(generated_slides, slide)
       /\ slide.bound
       /\ \E c \in slide.content :
            /\ c.ok
            /\ slide.content = exec_input.content \cup {c}
       /\ TypographerEdits(generated_slides'[Len(generated_slides')]) = {}
    ]_vars

C20_Witness ==
  /\ pc = "loop" /\ last_result = "ok"
  /\ retry_times = 2 /\ typo_retries = 1
  /\ generated_slides # <<>>
  /\ generated_slides[Len(generated_slides)] = slide
  /\ TypographerEdits(slide) = {}
  /\ TypographerEdits(edited_slide) =
       {[actions |-> typography_actions, ok |-> FALSE]}

\* ------------------------------------------------- the order of a synthesis
\* a step that issues the content request of a slide
StartsSlide == request' # request /\ request'.slide > 0
\* the planner is invoked only while _generate_outline runs, before any
\* slide; a slide is started from the loop, on an accepted outline, and is
\* the one after the slides already finished, which are slides 1..k in order
InOutlineOrder ==
  /\ planner_calls' > planner_calls =>
       /\ pc = "outline" /\ slide_log = <<>> /\ request = NoRequest
  /\ StartsSlide =>
       /\ pc = "loop"
       /\ outline_file.exists
       /\ outline # <<>> /\ outline' = outline
       /\ request'.slide = Len(slide_log) + 1
       /\ request'.text = outline[Len(slide_log) + 1].title
       /\ \A i \in 1..Len(slide_log) : slide_log[i].idx = i

\* C21 (as stated): the planning Role's initial invocation happens at most
\* once in a synthesis, the outline is accepted before any slide request,
\* and the slides are generated one at a time in outline order.
C21_PlannedOnceThenInOrder ==
  [][planner_calls' <= 1 /\ InOutlineOrder]_vars

\* C21 (amended): the planning Role's initial invocation happens at most
\* once in every attempt of _generate_outline, of which there are at most
\* three; the outline is accepted before any slide request, and the slides
\* are generated one at a time in outline order.
C21_PlannedThenInOrder ==
  [][/\ planner_calls' <= attempt'
     /\ attempt' <= TenacityAttempts
     /\ InOutlineOrder
    ]_vars

C21_Witness ==
  /\ pc = "planned"
  /\ planner_calls = 2 /\ attempt = 2
  /\ Len(outline) = 2

C21_WitnessSecondSlide ==
  /\ request.slide = 2 /\ Len(slide_log) = 2 /\ pc = "loop"
  /\ slide_log[1].idx = 1 /\ slide_log[2].idx = 2

\* ------------------------------------------------- the cardinality decision
\* the schema has been handed to the editor Role (line 272) or is about to be
ShownToEditor == cmd_pc \in {"editor", "commands", "done"}
ExampleData(i) == SchemaElement(content_schema[i][1]).data

\* C24: when the content schema is shown to the editor Role every element
\* of it carries a default_quantity, which is the length of the element's
\* example data when that is a list and 1 otherwise.
C24_CardinalityDecided ==
  ShownToEditor =>
    \A i \in 1..Len(content_schema) :
      LET el == content_schema[i][2] IN
        /\ el.default_quantity >= 1
        /\ el.default_quantity =
             (IF ExampleData(i).list THEN Len(ExampleData(i).items) ELSE 1)
        /\ el.data = Popped

C24_Witness ==
  /\ cmd_pc = "commands"
  /\ Len(content_schema) = 2
  /\ content_schema[1][1] = "photo" /\ content_schema[1][2].default_quantity = 2
  /\ content_schema[2][1] = "title" /\ content_schema[2][2].default_quantity = 1
  /\ editor_output # <<>>

\* ------------------------------------------------------------ the slide cap
Attempted == {slide_log[i].idx : i \in 1..Len(slide_log)}
Min(a, b) == IF a < b THEN a ELSE b
\* the loop was left at line 110, on a failed slide under stop-on-error
Aborted == error_exit /\ ~ succ_flag
CapKept ==
  force_pages =>
    /\ request.slide <= num_slides
    /\ Attempted \subseteq 1..num_slides

\* C22 (as stated): with the cap, only the first num_slides entries are
\* attempted; without it every outline entry is attempted.
C22_CapOrEveryEntry ==
  /\ CapKept
  /\ (pc = "done" /\ ~ force_pages) => Attempted = 1..Len(outline)

\* C22 (amended): with the cap, only the first num_slides entries are
\* attempted; without it every outline entry is attempted whatever
\* num_slides is, unless a failed slide under stop-on-error ended the loop,
\* and then the entries up to the failed one are.
C22_CapOrEveryEntryUnlessAborted ==
  /\ CapKept
  /\ pc = "done" =>
       IF Aborted
         THEN /\ slide_log # <<>>
              /\ ~ slide_log[Len(slide_log)].ok
              /\ Attempted = 1..Len(slide_log)
              /\ Len(slide_log) <= Len(outline)
         ELSE Attempted =
                1..(IF force_pages THEN Min(num_slides, Len(outline))
                    ELSE Len(outline))

C22_Witness ==
  /\ pc = "done" /\ force_pages /\ num_slides = 1
  /\ Len(outline) = 2 /\ Attempted = {1}
  /\ ~ Aborted

C22_WitnessNoCap ==
  /\ pc = "done" /\ ~ force_pages /\ num_slides = 1
  /\ Attempted = {1, 2}

C22_WitnessAborted ==
  /\ pc = "done" /\ ~ force_pages /\ Aborted
  /\ Len(outline) = 2 /\ Attempted = {1}

\* -------------------------------------------------------------- termination
\* how a synthesis ends: final.pptx written, an abort without it, or the
\* error of the third planning attempt
Ended ==
  \/ pc = "failed"
  \/ /\ pc = "done" /\ history_saved
     /\ \/ final_pptx.written /\ succ_flag
        \/ ~ final_pptx.written /\ Aborted
\* the attempts of the three repair loops
LoopsBounded ==
  /\ attempt <= TenacityAttempts
  /\ retry <= retry_times
  /\ planner_retries <= TenacityAttempts * retry_times
  /\ validations <= TenacityAttempts * (retry_times + 1)
  /\ exec_calls <= retry_times \/ variant = "PPTAgent"
  /\ coder_retries = 0 \/ coder_retries < retry_times
  /\ typo_retries = 0 \/ typo_retries < retry_times

\* C23: when every call returns, a synthesis ends, with final.pptx, with an
\* abort that writes none, or with the planning error; until then the
\* planner, coder and typographer loops stay within their attempt budgets.
C23_SynthesisTerminates == <>Ended /\ []LoopsBounded

C23_Witness ==
  /\ Ended /\ pc = "done" /\ final_pptx.written
  /\ retry_times = 2 /\ typo_retries = 1 /\ coder_retries = 1

C23_WitnessFatal ==
  /\ Ended /\ pc = "failed" /\ attempt = TenacityAttempts
  /\ validations = TenacityAttempts * (retry_times + 1)
  /\ retry_times = 1

\* ---------------------------------------------------------- the session save
\* C25 (as stated): however a synthesis ends, with final.pptx, with a
\* stop-on-error abort or with a planning failure, the Roles' histories and
\* the executor's logs have been saved.
C25_HistorySavedOnEveryEnd ==
  pc \in {"done", "failed"} => history_saved

\* what the code does: a synthesis that got past planning saves them, also
\* on an abort; one that failed in planning saves nothing
C25_HistorySavedUnlessPlanningFailed ==
  /\ pc = "done" => history_saved
  /\ pc = "failed" => ~ history_saved /\ ~ final_pptx.written

\* ------------------------------------------------------------ edit_distance
\* x < y for scores that were returned
ScoreLess(x, y) == x.num * y.den < y.num * x.den
\* the score is a number of [0, 1], is 1 on equal strings, and any string c
\* as far from text2 as text1 or farther, with the same longer length, scores
\* lower when farther and the same when as far
ScoreProperties ==
  /\ score.status = "ok"
  /\ 0 <= score.num /\ score.num <= score.den /\ score.den > 0
  /\ text1 = text2 => score.num = score.den
  /\ \A c \in Strings :
       LongerLen(c, text2) = LongerLen(text1, text2) =>
         /\ Levenshtein(c, text2) > Levenshtein(text1, text2)
              => ScoreLess(EditDistance(c, text2), score)
         /\ Levenshtein(c, text2) = Levenshtein(text1, text2)
              => EditDistance(c, text2) = score

\* C26 (as stated): for any two strings the score is defined, lies in
\* [0, 1], is 1 on equal strings, and for a fixed longer length strictly
\* decreases as the Levenshtein distance grows.
C26_ScoreDefinedAndMonotone ==
  score # NoScore => ScoreProperties

\* the same for two strings that are not both empty
C26_ScoreMonotoneUnlessBothEmpty ==
  (score # NoScore /\ (text1 # <<>> \/ text2 # <<>>)) => ScoreProperties

C26_ScoreRaisesOnEmptyStrings ==
  (score # NoScore /\ text1 = <<>> /\ text2 = <<>>)
    => score.status = "ZeroDivisionError"

\* ------------------------------------------------ the slides of the output
\* no action list applied to the slide met with feedback
ExecutedCleanly(s) == s.bound /\ s.content # {} /\ \A c \in s.content : c.ok
AllClean(slides) == \A i \in 1..Len(slides) : ExecutedCleanly(slides[i])

\* C27 (as stated): with either generator, every slide collected for the
\* output, and every slide of final.pptx, is a copy whose execution
\* reported success.
C27_OnlySuccessfulSlides ==
  /\ AllClean(generated_slides)
  /\ final_pptx.written => AllClean(final_pptx.slides)

\* the same for PPTCrew alone
C27_OnlySuccessfulSlidesInCrew ==
  Crew => C27_OnlySuccessfulSlides

\* ------------------------------------------------------ the coder repair loop
\* a step in which the executor ran on the coder's actions and returned null
CoderSuccess ==
  /\ Crew /\ pc = "exec"
  /\ exec_calls' = exec_calls + 1
  /\ \E c \in slide'.content : c.ok

\* C28: the first executor call of the coder loop that returns null ends
\* the loop: the coder is not asked again and the executor not called again
\* for that stage, and the slide carried on is the fresh copy of the
\* exemplar slide as edited by that call with the coder's latest actions.
C28_FirstSuccessEndsCoderLoop ==
  [][/\ CoderSuccess =>
          /\ pc' = "after_loop"
          /\ all_nonnull
          /\ UNCHANGED <<edit_actions, coder_retries, error_idx>>
          /\ edit_actions.version = coder_retries
          /\ exec_input' = DeepCopySlide(presentation, template.template_id)
          /\ ~ exec_input'.shared
          /\ slide' = Executed(exec_input', edit_actions, TRUE)
     /\ pc = "after_loop" =>
          /\ UNCHANGED <<exec_calls, coder_retries, edit_actions>>
          /\ slide.bound =>
               /\ ExecutedCleanly(slide)
               /\ (pc' = "loop" /\ last_result' = "ok") =>
                    generated_slides' = Append(generated_slides, slide)
    ]_vars

C28_Witness ==
  /\ pc = "after_loop" /\ slide.bound
  /\ retry_times = 2 /\ exec_calls = 1 /\ coder_retries = 0
  /\ slide.content = {[actions |-> edit_actions, ok |-> TRUE]}

C28_WitnessAfterRetry ==
  /\ pc = "loop" /\ last_result = "ok" /\ Crew
  /\ exec_calls = 2 /\ coder_retries = 1
  /\ edit_actions.version = 1
  /\ generated_slides[Len(generated_slides)].content =
       {[actions |-> edit_actions, ok |-> TRUE]}

\* ------------------------------------------------ the typographer's repairs
\* a typographer attempt made after typographer.retry has answered; the
\* answer is what line 311 bound
AttemptAfterRetry == pc = "typo" /\ typo_retries > 0
AppliedTo(s) == {c.actions : c \in s.content}

\* C29 (as stated): after an executor failure the typographer's next
\* attempt applies the action list that typographer.retry returned.
C29_RetryAnswerApplied ==
  [][AttemptAfterRetry =>
       /\ edit_actions.role = "typographer"
       /\ edit_actions.version = typo_retries
       /\ edit_actions \in AppliedTo(edited_slide')
    ]_vars

\* what the code does: every attempt applies the typographer's first answer
C29_FirstAnswerReapplied ==
  [][pc = "typo" =>
       /\ typography_actions.version = 0
       /\ AppliedTo(edited_slide') = AppliedTo(slide) \cup {typography_actions}
       /\ AttemptAfterRetry => edit_actions \notin AppliedTo(edited_slide')
    ]_vars

\* ------------------------------------------------- what a repair replays
\* the Turns of one slide, or of one planning attempt: the invocation and
\* the first i - 1 retries
OwnTurns(unit, i) == [j \in 1..i |-> TurnTag(unit, j - 1)]

\* C30: the i-th coder retry of a slide replays the slide's own coder
\* invocation and its i - 1 earlier retries and no Turn of an earlier
\* slide; the i-th planner repair replays the planner invocation of the
\* running attempt and its i - 1 earlier repairs.
C30_RetryReplaysOwnTurns ==
  replay.role # "none" =>
    /\ replay.i >= 1
    /\ replay.turns = OwnTurns(replay.unit, replay.i)

C30_Witness ==
  /\ replay.role = "coder" /\ replay.unit = 2 /\ replay.i = 2
  /\ Len(coder_history) = 6
  /\ coder_history[1].unit = 1 /\ coder_history[3].unit = 1
  /\ coder_history[4] = TurnTag(2, 0)

C30_WitnessPlanner ==
  /\ replay.role = "planner" /\ replay.unit = 2 /\ replay.i = 2
  /\ Len(planner_history) = 5
  /\ planner_history[1].unit = 1

\* ------------------------------------------------------------------ C31
\* the Turns the backend was just conditioned on, as they stand in h
ConditionedOn(h) ==
  [a \in 1..Len(llm_input'.turns) |-> h[PositionIn(h, llm_input'.turns[a])]]
ParseFailed ==
  outcome'.op \in {"call", "retry"} /\ outcome'.status = "RuntimeError"

\* C31: when an invocation or a retry raises because the response cannot
\* be parsed, the history has grown by exactly the Turn of that exchange,
\* and the token totals have been raised by the cost of that Turn, of the
\* Turns it was conditioned on and of the system message.
C31_TurnKeptOnParseFailure ==
  [][ParseFailed =>
       /\ Len(history') = Len(history) + 1
       /\ IsPrefix(history, history')
       /\ llm_calls' = llm_calls + 1
       /\ LET turn == history'[Len(history')] IN
            /\ turn.prompt = llm_input'.prompt
            /\ turn.response = <<"unparsable">>
            /\ input_tokens' =
                 input_tokens + Tokens(system_message) + turn.input_tokens
                   + SumOf([a \in 1..Len(llm_input'.turns) |->
                              ConditionedOn(history)[a].input_tokens])
            /\ output_tokens' =
                 output_tokens + 3 + turn.output_tokens
                   + SumOf([a \in 1..Len(llm_input'.turns) |->
                              ConditionedOn(history)[a].output_tokens])
    ]_vars

\* a retry conditioned on an invocation's Turn fails to parse, as the
\* invocation did, and both Turns are in the history
C31_Witness ==
  /\ outcome.op = "retry" /\ outcome.status = "RuntimeError"
  /\ outcome.k = 1
  /\ Len(history) = 2
  /\ history[1].prompt = RenderTemplate("p1")
  /\ history[1].response = <<"unparsable">>
  /\ history[2].prompt = RetryPrompt("feedback", "traceback")
  /\ history[2].response = <<"unparsable">>
  /\ Len(llm_input.turns) = 1
  /\ input_tokens > 0

C31_WitnessCall ==
  /\ outcome.op = "call" /\ outcome.status = "RuntimeError"
  /\ outcome.recent = 1
  /\ Len(history) = 2
  /\ history[2].response = <<"unparsable">>
  /\ Len(llm_input.turns) = 1

\* ------------------------------------------------------------------ C32
\* an entry of the artifact names a layout of the library and holds the
\* three mandatory fields
WellFormedEntry(kv) ==
  /\ kv[2].layout \in LibraryNames
  /\ MandatoryKeys \subseteq kv[2].keys
\* planning of the first call against the run directory is under way or
\* has ended in an error
NotAccepted == run = 1 /\ pc \in {"outline", "validating", "failed"}

\* C32: the outline artifact is written only when validation has accepted
\* the outline: while planning is under way, and when it has ended in an
\* error, the run directory holds no artifact; an artifact that was written
\* is the accepted outline, each entry with a layout name of the library
\* and the three mandatory fields.
C32_ArtifactOnlyAfterAcceptance ==
  /\ NotAccepted => ~ outline_file.exists
  /\ outline_file.exists =>
       /\ \A i \in 1..Len(outline_file.content) :
            WellFormedEntry(outline_file.content[i])
       /\ (run = 1 /\ pc = "planned" =>
             outline_file.content = JsonDump(outline))

\* an artifact of two entries written after a repair, one layout rewritten
C32_Witness ==
  /\ pc = "planned" /\ outline_file.exists
  /\ planner_retries >= 1
  /\ Len(outline_file.content) = 2
  /\ cand[1].layout = "bullet list"
  /\ outline_file.content[1][2].layout = "bullets"

\* planning has ended in an error after its repairs, nothing was written
C32_WitnessFailed ==
  /\ pc = "failed" /\ ~ outline_file.exists
  /\ planner_retries >= 1 /\ attempt = TenacityAttempts

\* ------------------------------------------------------------------ C33
\* the current call has written this output
WroteNow(suffix) == files[PathOf(output_file, suffix)].by = call_no

\* C33 (as stated): a call of generate_slides for an output_file that an
\* earlier call has run to its end for returns at once: the language model
\* is not invoked and neither output is written again.
C33_SecondCallReturnsAtOnce ==
  (base_pc # "idle" /\ succeeded_before) =>
    /\ base_pc = "returned"
    /\ lm_calls = 0
    /\ ~ WroteNow(".jsonl") /\ ~ WroteNow(".pptx")

\* what the code does: a call returns at once exactly when a file named
\* output_file + ".json" lies in the directory, and no call writes one
C33_ReturnsOnlyOnJsonFile ==
  /\ base_pc # "idle" =>
       (base_pc = "returned" <=> OutputsFound(files, output_file))
  /\ \A o \in OutputFiles : files[PathOf(o, ".json")].by = 0

\* a second call for the same output_file has gone through the language
\* model again and has written both outputs again
C33_SecondCallRewrites ==
  /\ succeeded_before /\ base_pc = "completed"
  /\ lm_calls >= 3
  /\ WroteNow(".jsonl") /\ WroteNow(".pptx")

====
